---------------------------- MODULE Spec2Model ----------------------------
(***************************************************************************)
(* Model of belltheone/bizfinder, core/file_parser.py (FileParser).        *)
(*                                                                         *)
(* Strings are sequences of Unicode code points (naturals); Python's None  *)
(* is the one-element sequence PyNone, which is no string.  Byte buffers   *)
(* are sequences of 0..255.                                                *)
(***************************************************************************)
EXTENDS Integers, Sequences, FiniteSets, TLC

VARIABLES
    file,      \* argument of the last FileParser.parse call (path + what the libraries see)
    ret,       \* outcome of the last FileParser.parse call
    pc,        \* "idle" before a parse call, "done" once it has ended
    text,      \* argument given to FileParser._clean_text
    cleaned,   \* value of the last _clean_text application
    passes,    \* number of _clean_text applications made on text
    handles,   \* handles the last parse call acquired, and those it left open
    encoded,   \* bytes given to FileParser._decode_hwp_text
    records,   \* records of the stream given to _extract_text_from_hwp_records
    result,    \* what the decoder or the tokenizer returned
    calls,     \* the parse calls in progress, one per thread
    frames,    \* the cells holding the variable text of parse
    projects,  \* rows of the projects table
    rows_before, \* rows of the projects table when the last insert_project call began
    insert_data, \* argument of the last ProjectDAO.insert_project call
    project_id,\* what the last insert_project call returned
    inserts,   \* number of insert_project calls made
    response,  \* what the last chat.completions.create call of _call_api gave
    attempt,   \* loop variable of _call_api: index of the attempt in progress
    max_retries, \* argument of the _call_api call
    api_calls, \* chat.completions.create calls the _call_api call has issued
    analysis,  \* what AIAnalyzer._call_api returned
    cursor,    \* locals of _extract_text_from_hwp_records at the head of its loop
    scan       \* locals of _decode_hwp_text at the head of its loop

vars == <<file, ret, pc, text, cleaned, passes, handles, encoded, records, result,
          calls, frames, projects, rows_before, insert_data, project_id, inserts,
          response, attempt, max_retries, api_calls, analysis, cursor, scan>>

\* The variables of one group of operations.
cleanVars == <<text, cleaned, passes>>
tokenVars == <<encoded, records, result>>
threadVars == <<calls, frames>>
daoVars == <<projects, rows_before, insert_data, project_id, inserts>>
aiVars == <<response, attempt, max_retries, api_calls, analysis>>
collabVars == <<daoVars, aiVars>>
loopVars == <<cursor, scan>>
parserVars == <<file, ret, handles, cleanVars, tokenVars, threadVars, loopVars>>

\* The database and the analyzer before any call on them.
CollabIdle ==
    /\ projects = {}
    /\ rows_before = {}
    /\ insert_data = <<>>
    /\ project_id = <<>>
    /\ inserts = 0
    /\ response = <<>>
    /\ attempt = 0
    /\ max_retries = 0
    /\ api_calls = 0
    /\ analysis = <<>>

\* The tokenizer and the decoder outside their loops.
LoopIdle ==
    /\ cursor = <<>>
    /\ scan = <<>>

(***************************************************************************)
(* Bounds of the model.                                                    *)
(***************************************************************************)
MaxLen == 6        \* longest input string given to _clean_text
MaxPasses == 2     \* _clean_text applications per input

(***************************************************************************)
(* Characters.                                                             *)
(***************************************************************************)
NL == 10           \* '\n'
PyNone == <<0 - 1>>

\* str.isspace(): the characters str.strip() removes.
IsSpace(c) ==
    c \in ({9, 10, 11, 12, 13, 28, 29, 30, 31, 32, 133, 160, 5760}
           \cup (8192..8202) \cup {8232, 8233, 8239, 8287, 12288})

Min(S) == CHOOSE m \in S : \A k \in S : m <= k
\* The greatest member of S: the least of the negated members, negated.
Max(S) == 0 - Min({0 - k : k \in S})

\* str.strip() with no argument.
Strip(s) ==
    LET keep == {i \in 1..Len(s) : ~IsSpace(s[i])}
    IN  IF keep = {} THEN <<>> ELSE SubSeq(s, Min(keep), Max(keep))

\* str.split(sep) for a one-character separator: always at least one piece.
RECURSIVE Split(_, _)
Split(s, sep) ==
    LET hits == {i \in 1..Len(s) : s[i] = sep}
    IN  IF hits = {} THEN <<s>>
        ELSE <<SubSeq(s, 1, Min(hits) - 1)>>
             \o Split(SubSeq(s, Min(hits) + 1, Len(s)), sep)

\* sep.join(parts)
RECURSIVE Join(_, _)
Join(sep, parts) ==
    IF parts = <<>> THEN <<>>
    ELSE IF Len(parts) = 1 THEN parts[1]
    ELSE parts[1] \o sep \o Join(sep, Tail(parts))

\* Length of the run of newlines that starts at position i of s.
RECURSIVE NewlineRun(_, _)
NewlineRun(s, i) ==
    IF i > Len(s) \/ s[i] # NL THEN 0 ELSE 1 + NewlineRun(s, i + 1)

\* re.sub(r'\n{3,}', '\n\n', s): leftmost, greedy, non-overlapping.
RECURSIVE SubNewlinesFrom(_, _)
SubNewlinesFrom(s, i) ==
    IF i > Len(s) THEN <<>>
    ELSE LET run == NewlineRun(s, i)
         IN  IF run >= 3 THEN <<NL, NL>> \o SubNewlinesFrom(s, i + run)
             ELSE <<s[i]>> \o SubNewlinesFrom(s, i + 1)

SubNewlines(s) == SubNewlinesFrom(s, 1)

\* FileParser._clean_text
CleanText(t) ==
    IF t = PyNone \/ t = <<>> THEN <<>>
    ELSE LET collapsed == SubNewlines(t)
             split == Split(collapsed, NL)
             lines == [i \in 1..Len(split) |-> Strip(split[i])]
         IN  Strip(Join(<<NL>>, lines))

(***************************************************************************)
(* String literals of file_parser.py, as code points.                      *)
(***************************************************************************)
\* "[파싱 오류]" (parse error)
ParseErrorTag == <<91, 54028, 49905, 32, 50724, 47448, 93>>
\* "[수동 확인 필요]" (manual check required)
ManualCheckTag == <<91, 49688, 46041, 32, 54869, 51064, 32, 54596, 50836, 93>>
\* "[파싱 오류] 유효하지 않은 HWP 파일입니다."
MsgHwpInvalid == <<91, 54028, 49905, 32, 50724, 47448, 93, 32, 50976, 54952, 54616, 51648, 32, 50506, 51008, 32, 72, 87, 80, 32, 54028, 51068, 51077, 45768, 45796, 46>>
\* "[파싱 오류] HWP 파일에 BodyText가 없습니다."
MsgHwpNoBodyText == <<91, 54028, 49905, 32, 50724, 47448, 93, 32, 72, 87, 80, 32, 54028, 51068, 50640, 32, 66, 111, 100, 121, 84, 101, 120, 116, 44032, 32, 50630, 49845, 45768, 45796, 46>>
\* "[파싱 오류] HWPX 파일에 본문 섹션이 없습니다."
MsgHwpxNoSection == <<91, 54028, 49905, 32, 50724, 47448, 93, 32, 72, 87, 80, 88, 32, 54028, 51068, 50640, 32, 48376, 47928, 32, 49465, 49496, 51060, 32, 50630, 49845, 45768, 45796, 46>>
\* "[파싱 오류] 유효하지 않은 HWPX 파일입니다."
MsgHwpxInvalid == <<91, 54028, 49905, 32, 50724, 47448, 93, 32, 50976, 54952, 54616, 51648, 32, 50506, 51008, 32, 72, 87, 80, 88, 32, 54028, 51068, 51077, 45768, 45796, 46>>
\* "[파싱 오류] PDF 파일을 열 수 없습니다: "
MsgPdfOpenFailed == <<91, 54028, 49905, 32, 50724, 47448, 93, 32, 80, 68, 70, 32, 54028, 51068, 51012, 32, 50676, 32, 49688, 32, 50630, 49845, 45768, 45796, 58, 32>>
\* "[수동 확인 필요] 이 PDF는 이미지 기반 문서입니다. 텍스트를 추출할 수 없습니다."
MsgManualCheck == <<91, 49688, 46041, 32, 54869, 51064, 32, 54596, 50836, 93, 32, 51060, 32, 80, 68, 70, 45716, 32, 51060, 48120, 51648, 32, 44592, 48152, 32, 47928, 49436, 51077, 45768, 45796, 46, 32, 53581, 49828, 53944, 47484, 32, 52628, 52636, 54624, 32, 49688, 32, 50630, 49845, 45768, 45796, 46>>
\* "[파싱 오류] 파일 파싱 중 오류 발생 ("
MsgDispatchHead == <<91, 54028, 49905, 32, 50724, 47448, 93, 32, 54028, 51068, 32, 54028, 49905, 32, 51473, 32, 50724, 47448, 32, 48156, 49373, 32, 40>>
\* "): "
MsgDispatchMid == <<41, 58, 32>>
ExtHwp == <<46, 104, 119, 112>>            \* ".hwp"
ExtHwpx == <<46, 104, 119, 112, 120>>      \* ".hwpx"
ExtPdf == <<46, 112, 100, 102>>            \* ".pdf"
\* "BodyText/Section"
BodyTextSection == <<66, 111, 100, 121, 84, 101, 120, 116, 47, 83, 101, 99, 116, 105, 111, 110>>
\* "Contents/"
ContentsSlash == <<67, 111, 110, 116, 101, 110, 116, 115, 47>>
\* "Contents/section"
ContentsSection == <<67, 111, 110, 116, 101, 110, 116, 115, 47, 115, 101, 99, 116, 105, 111, 110>>
DotXml == <<46, 120, 109, 108>>            \* ".xml"
Slash == 47        \* '/'
Dot == 46          \* '.'

SUPPORTED_EXTENSIONS == {ExtHwp, ExtHwpx, ExtPdf}

(***************************************************************************)
(* String operations of the Python runtime the parser relies on.           *)
(***************************************************************************)
StartsWith(s, p) == Len(s) >= Len(p) /\ SubSeq(s, 1, Len(p)) = p
EndsWith(s, p) == Len(s) >= Len(p) /\ SubSeq(s, Len(s) - Len(p) + 1, Len(s)) = p

\* str.lower(), on the ASCII range the paths and entry names use.
LowerChar(c) == IF c \in 65..90 THEN c + 32 ELSE c
Lower(s) == [i \in 1..Len(s) |-> LowerChar(s[i])]

IsDigit(c) == c \in 48..57

\* str.rfind(c), 0-based, -1 when absent.
RFind(s, c) ==
    LET hits == {i \in 1..Len(s) : s[i] = c}
    IN  IF hits = {} THEN 0 - 1 ELSE Max(hits) - 1

\* os.path.splitext(p)[1]: from the last dot of the last path component, unless
\* that component has only dots before it.
SplitExt(p) ==
    LET sepIndex == RFind(p, Slash)
        dotIndex == RFind(p, Dot)
    IN  IF dotIndex > sepIndex
           /\ \E k \in (sepIndex + 1)..(dotIndex - 1) : p[k + 1] # Dot
        THEN SubSeq(p, dotIndex + 1, Len(p))
        ELSE <<>>

\* The longest run of digits that ends s: the group of re.search(r'(\d+)$', s).
RECURSIVE TrailingDigits(_)
TrailingDigits(s) ==
    IF s = <<>> \/ ~IsDigit(s[Len(s)]) THEN <<>>
    ELSE Append(TrailingDigits(SubSeq(s, 1, Len(s) - 1)), s[Len(s)])

\* int(digits)
RECURSIVE IntOf(_)
IntOf(digits) ==
    IF digits = <<>> THEN 0
    ELSE 10 * IntOf(SubSeq(digits, 1, Len(digits) - 1)) + (digits[Len(digits)] - 48)

\* Python's order on strings: by code point, a proper prefix first.
RECURSIVE StrLess(_, _)
StrLess(a, b) ==
    IF b = <<>> THEN FALSE
    ELSE IF a = <<>> THEN TRUE
    ELSE IF a[1] # b[1] THEN a[1] < b[1]
    ELSE StrLess(Tail(a), Tail(b))

(***************************************************************************)
(* Binary Container Extractor: record tokenizer and payload decoder.       *)
(***************************************************************************)
\* struct.unpack_from("<H", data, i)[0], i 0-based
U16(data, i) == data[i + 1] + 256 * data[i + 2]

\* A mutant of DecodeStep: a control code that opens an extended control (3,
\* 17..24) takes the eight code units of the extended control with it.
DecodeStepExtendedSkip(data, st) ==
    IF ~(st.i < Len(data) - 1) THEN st
    ELSE LET code == U16(data, st.i)
         IN  IF code = 13 THEN [i |-> st.i + 2, result |-> Append(st.result, NL)]
             ELSE IF code = 3 \/ code \in 17..24 THEN [i |-> st.i + 16, result |-> st.result]
             ELSE IF code <= 31 THEN [i |-> st.i + 2, result |-> st.result]
             ELSE [i |-> st.i + 2, result |-> Append(st.result, code)]

\* A mutant of DecodeStep: a control code that is ignored leaves i where it is.
DecodeStepControlStalls(data, st) ==
    IF ~(st.i < Len(data) - 1) THEN st
    ELSE LET code == U16(data, st.i)
         IN  IF code = 13 THEN [i |-> st.i + 2, result |-> Append(st.result, NL)]
             ELSE IF code <= 31 THEN st
             ELSE [i |-> st.i + 2, result |-> Append(st.result, code)]

\* FileParser._decode_hwp_text: one pass of the while loop on the loop state
\* st = [i, result]; the state is left alone once i < len(data) - 1 fails.
DecodeStep(data, st) ==
    IF ~(st.i < Len(data) - 1) THEN st
    ELSE LET code == U16(data, st.i)
         IN  IF code = 13 THEN [i |-> st.i + 2, result |-> Append(st.result, NL)]
             ELSE IF code <= 31 THEN [i |-> st.i + 2, result |-> st.result]
             ELSE [i |-> st.i + 2, result |-> Append(st.result, code)]

\* n passes of the while loop from the state st: the first half of the passes,
\* and the rest unless the loop has ended by then.
RECURSIVE DecodeLoop(_, _, _)
DecodeLoop(data, st, n) ==
    IF n = 0 THEN st
    ELSE IF n = 1 THEN DecodeStep(data, st)
    ELSE LET mid == DecodeLoop(data, st, n \div 2)
         IN  IF ~(mid.i < Len(data) - 1) THEN mid
             ELSE DecodeLoop(data, mid, n - n \div 2)

\* FileParser._decode_hwp_text.  Every pass moves i forward, so the loop has
\* ended after len(data) passes.
DecodeHwpText(data) == DecodeLoop(data, [i |-> 0, result |-> <<>>], Len(data)).result

\* A mutant of HeaderTagId: the mask 0x7FF in the place of 0x3FF, which takes
\* the lowest bit of the level into the tag.
HeaderTagIdWideMask(data, offset) == U16(data, offset) % 2048

\* The fields of the header word struct.unpack_from("<I", data, offset)[0].
HeaderTagId(data, offset) == U16(data, offset) % 1024
HeaderSize(data, offset) == U16(data, offset + 2) \div 16

\* The escape size struct.unpack_from("<I", data, offset)[0].  Only the
\* comparison offset + size > data_len reads a size beyond the buffer, so a
\* value of 2^30 or more, longer than any buffer, stands as 2^30.
EscapeSize(data, offset) ==
    IF U16(data, offset + 2) >= 16384 THEN 1073741824
    ELSE U16(data, offset) + 65536 * U16(data, offset + 2)

\* A mutant of RecordLoop: the payload of every record is decoded, whatever
\* its tagId.
RECURSIVE RecordLoopAnyTag(_, _, _)
RecordLoopAnyTag(data, offset, texts) ==
    IF ~(offset < Len(data)) THEN texts
    ELSE IF offset + 4 > Len(data) THEN texts
    ELSE LET size12 == HeaderSize(data, offset)
             escaped == size12 = 4095
         IN  IF escaped /\ offset + 8 > Len(data) THEN texts
             ELSE LET size == IF escaped THEN EscapeSize(data, offset + 4) ELSE size12
                      start == IF escaped THEN offset + 8 ELSE offset + 4
                  IN  IF start + size > Len(data) THEN texts
                      ELSE LET t == DecodeHwpText(SubSeq(data, start + 1, start + size))
                           IN  RecordLoopAnyTag(data, start + size,
                                   IF Strip(t) # <<>> THEN Append(texts, t) ELSE texts)

\* A mutant of RecordLoop: the size field 0xFFF is taken as the size itself.
RECURSIVE RecordLoopNoEscape(_, _, _)
RecordLoopNoEscape(data, offset, texts) ==
    IF ~(offset < Len(data)) THEN texts
    ELSE IF offset + 4 > Len(data) THEN texts
    ELSE LET tag_id == HeaderTagId(data, offset)
             size == HeaderSize(data, offset)
             start == offset + 4
         IN  IF start + size > Len(data) THEN texts
             ELSE LET t == DecodeHwpText(SubSeq(data, start + 1, start + size))
                  IN  RecordLoopNoEscape(data, start + size,
                          IF tag_id = 67 /\ Strip(t) # <<>>
                          THEN Append(texts, t) ELSE texts)

\* FileParser._extract_text_from_hwp_records: the while loop, texts so far.
RECURSIVE RecordLoop(_, _, _)
RecordLoop(data, offset, texts) ==
    IF ~(offset < Len(data)) THEN texts
    ELSE IF offset + 4 > Len(data) THEN texts
    ELSE LET tag_id == HeaderTagId(data, offset)
             size12 == HeaderSize(data, offset)
             escaped == size12 = 4095
         IN  IF escaped /\ offset + 8 > Len(data) THEN texts
             ELSE LET size == IF escaped THEN EscapeSize(data, offset + 4) ELSE size12
                      start == IF escaped THEN offset + 8 ELSE offset + 4
                  IN  IF start + size > Len(data) THEN texts
                      ELSE LET t == DecodeHwpText(SubSeq(data, start + 1, start + size))
                           IN  RecordLoop(data, start + size,
                                   IF tag_id = 67 /\ Strip(t) # <<>>
                                   THEN Append(texts, t) ELSE texts)

ExtractTextFromHwpRecords(data) == Join(<<NL>>, RecordLoop(data, 0, <<>>))

\* Stable sort of a sequence of stream indices by key[i]: list.sort(key=...).
RECURSIVE SortByKey(_, _)
SortByKey(idxs, key) ==
    IF idxs = <<>> THEN <<>>
    ELSE LET rest == SortByKey(SubSeq(idxs, 1, Len(idxs) - 1), key)
             x == idxs[Len(idxs)]
             before == {j \in 1..Len(rest) : key[rest[j]] <= key[x]}
             n == IF before = {} THEN 0 ELSE Max(before)
         IN  SubSeq(rest, 1, n) \o <<x>> \o SubSeq(rest, n + 1, Len(rest))

\* The subsequence of 1..n whose members satisfy keep[i], in order.
RECURSIVE Filter(_, _)
Filter(n, keep) ==
    IF n = 0 THEN <<>>
    ELSE IF keep[n] THEN Append(Filter(n - 1, keep), n) ELSE Filter(n - 1, keep)

\* int(re.search(r'(\d+)$', x[-1]).group(1)) if it matches, else 0
SectionKey(stream_path) == IntOf(TrailingDigits(stream_path[Len(stream_path)]))

\* Stable sort of a sequence of indices by names[i] in Python's string order:
\* sorted(...) on the names.
RECURSIVE SortByName(_, _)
SortByName(idxs, names) ==
    IF idxs = <<>> THEN <<>>
    ELSE LET rest == SortByName(SubSeq(idxs, 1, Len(idxs) - 1), names)
             x == idxs[Len(idxs)]
             before == {j \in 1..Len(rest) : ~StrLess(names[x], names[rest[j]])}
             n == IF before = {} THEN 0 ELSE Max(before)
         IN  SubSeq(rest, 1, n) \o <<x>> \o SubSeq(rest, n + 1, Len(rest))

\* A mutant of SectionOrder: the streams are sorted by name, not by number.
SectionOrderLexical(streams) ==
    LET joined == [i \in 1..Len(streams) |-> Join(<<Slash>>, streams[i].path)]
        found == Filter(Len(streams),
                        [i \in 1..Len(streams) |-> StartsWith(joined[i], BodyTextSection)])
    IN  SortByName(found, joined)

\* _parse_hwp, step 2: the indices (into ole.listdir()) of the streams whose
\* joined path starts with "BodyText/Section", sorted by section number.
SectionOrder(streams) ==
    LET joined == [i \in 1..Len(streams) |-> Join(<<Slash>>, streams[i].path)]
        found == Filter(Len(streams),
                        [i \in 1..Len(streams) |-> StartsWith(joined[i], BodyTextSection)])
    IN  SortByKey(found, [i \in 1..Len(streams) |-> SectionKey(streams[i].path)])

\* What an extractor hands back: a returned string or a raised exception, with
\* the list extracted_texts and the order in which the sections were visited.
Returns(value, texts, order) ==
    [kind |-> "return", value |-> value, texts |-> texts, order |-> order]
Raises(msg, texts, order) ==
    [kind |-> "raise", value |-> msg, texts |-> texts, order |-> order]

\* header_data[36] & 0x01, when FileHeader exists and is longer than 36 bytes
IsCompressed(header) ==
    /\ header.present
    /\ Len(header.data) > 36
    /\ header.data[37] % 2 # 0

\* The loop over section_streams with break in the place of continue: a
\* section that does not inflate ends the loop.
RECURSIVE HwpSectionLoopBreak(_, _, _, _, _)
HwpSectionLoopBreak(c, todo, is_compressed, texts, order) ==
    IF todo = <<>> THEN Returns(Join(<<NL>>, texts), texts, order)
    ELSE LET d == c.streams[Head(todo)].data
             seen == Append(order, Head(todo))
         IN  IF ~d.readable THEN Raises(c.err, texts, seen)
             ELSE IF is_compressed /\ ~d.deflateOk
                  THEN Returns(Join(<<NL>>, texts), texts, seen)
             ELSE LET section_text == ExtractTextFromHwpRecords(d.recs)
                  IN  HwpSectionLoopBreak(c, Tail(todo), is_compressed,
                          IF section_text # <<>> THEN Append(texts, section_text) ELSE texts,
                          seen)

\* _parse_hwp, step 3: the loop over section_streams.
RECURSIVE HwpSectionLoop(_, _, _, _, _)
HwpSectionLoop(c, todo, is_compressed, texts, order) ==
    IF todo = <<>> THEN Returns(Join(<<NL>>, texts), texts, order)
    ELSE LET d == c.streams[Head(todo)].data
             seen == Append(order, Head(todo))
         IN  IF ~d.readable THEN Raises(c.err, texts, seen)
             ELSE IF is_compressed /\ ~d.deflateOk
                  THEN HwpSectionLoop(c, Tail(todo), is_compressed, texts, seen)
             ELSE LET section_text == ExtractTextFromHwpRecords(d.recs)
                  IN  HwpSectionLoop(c, Tail(todo), is_compressed,
                          IF section_text # <<>> THEN Append(texts, section_text) ELSE texts,
                          seen)

\* A mutant of ParseHwp: a file that is no container gives no text and no sentinel.
ParseHwpInvalidEmpty(f) ==
    LET c == f.content
    IN  IF c.kind = "unreadable" THEN Raises(c.err, <<>>, <<>>)
        ELSE IF c.kind \notin {"ole", "oleBroken"} THEN Returns(<<>>, <<>>, <<>>)
        ELSE IF c.kind = "oleBroken" THEN Raises(c.err, <<>>, <<>>)
        ELSE LET section_streams == SectionOrder(c.streams)
             IN  IF section_streams = <<>> THEN Returns(MsgHwpNoBodyText, <<>>, <<>>)
                 ELSE HwpSectionLoop(c, section_streams, IsCompressed(c.header), <<>>, <<>>)

\* FileParser._parse_hwp
ParseHwp(f) ==
    LET c == f.content
    IN  IF c.kind = "unreadable" THEN Raises(c.err, <<>>, <<>>)
        ELSE IF c.kind \notin {"ole", "oleBroken"} THEN Returns(MsgHwpInvalid, <<>>, <<>>)
        ELSE IF c.kind = "oleBroken" THEN Raises(c.err, <<>>, <<>>)
        ELSE LET section_streams == SectionOrder(c.streams)
             IN  IF section_streams = <<>> THEN Returns(MsgHwpNoBodyText, <<>>, <<>>)
                 ELSE HwpSectionLoop(c, section_streams, IsCompressed(c.header), <<>>, <<>>)

(***************************************************************************)
(* Archive/XML Extractor.                                                  *)
(***************************************************************************)
\* Number of digits at the head of s.
RECURSIVE LeadingDigits(_)
LeadingDigits(s) ==
    IF s = <<>> \/ ~IsDigit(s[1]) THEN 0 ELSE 1 + LeadingDigits(Tail(s))

\* re.match(r'Contents/section\d+\.xml', f, re.IGNORECASE): anchored at the
\* start of f only.
MatchesSectionXml(f) ==
    LET l == Lower(f)
        rest == SubSeq(l, Len(ContentsSection) + 1, Len(l))
        n == LeadingDigits(rest)
    IN  /\ StartsWith(l, Lower(ContentsSection))
        /\ n >= 1
        /\ StartsWith(SubSeq(rest, n + 1, Len(rest)), DotXml)

\* The namespaces of an element: 0 none, 1..3 the known_namespaces in their
\* order, 4 any other.
KnownNamespaces == 3
TagT == <<116>>    \* "t"

\* The encoding the XML declaration of an entry names: "utf-8", which expat
\* reads, and "euc-kr", a multi-byte encoding for which ET.fromstring raises
\* ValueError ("multi-byte encodings are not supported").
Utf8 == <<117, 116, 102, 45, 56>>
EucKr == <<101, 117, 99, 45, 107, 114>>

\* _extract_text_from_hwpx_xml raising, as the text of an entry
XmlRaises == <<0 - 6>>

\* FileParser._extract_text_from_hwpx_xml, on what ET.fromstring makes of the
\* bytes: an exception that is no ParseError (it leaves the function), a
\* ParseError, or the elements in document order, the root first.
ExtractTextFromHwpxXml(xml) ==
    IF xml.codec # Utf8 THEN XmlRaises
    ELSE IF ~xml.wellformed THEN <<>>
    ELSE LET elems == xml.elems
             n == Len(elems)
             truthy(i) == elems[i].text # PyNone /\ elems[i].text # <<>>
             \* root.findall(".//hp:t", ns): descendants of the root only
             hits(ns) == {i \in 2..n : elems[i].ns = ns /\ elems[i].tag = TagT}
             matching == {ns \in 1..KnownNamespaces : hits(ns) # {}}
             chosen == IF matching # {}
                       THEN Filter(n, [i \in 1..n |-> i \in hits(Min(matching)) /\ truthy(i)])
                       ELSE Filter(n, [i \in 1..n |-> elems[i].tag = TagT /\ truthy(i)])
         IN  Join(<<NL>>, [k \in 1..Len(chosen) |-> elems[chosen[k]].text])

\* _parse_hwpx: section_files, as indices into zf.namelist().
EntryOrder(names) ==
    LET n == Len(names)
        canonical == Filter(n, [i \in 1..n |-> MatchesSectionXml(names[i])])
        fallback == Filter(n, [i \in 1..n |->
                        StartsWith(names[i], ContentsSlash) /\ EndsWith(names[i], DotXml)])
    IN  IF canonical # <<>> THEN SortByName(canonical, names)
        ELSE SortByName(fallback, names)

\* A mutant of HwpxSectionLoop: the text of an entry replaces the texts before it.
RECURSIVE HwpxSectionLoopOverwrite(_, _, _, _)
HwpxSectionLoopOverwrite(c, todo, texts, order) ==
    IF todo = <<>> THEN Returns(Join(<<NL>>, texts), texts, order)
    ELSE LET d == c.entries[Head(todo)].data
             seen == Append(order, Head(todo))
         IN  IF d.read = "BadZipFile" THEN Returns(MsgHwpxInvalid, texts, seen)
             ELSE IF d.read # "ok" THEN Raises(c.err, texts, seen)
             ELSE IF ExtractTextFromHwpxXml(d) = XmlRaises THEN Raises(c.err, texts, seen)
             ELSE LET section_text == ExtractTextFromHwpxXml(d)
                  IN  HwpxSectionLoopOverwrite(c, Tail(todo),
                          IF section_text # <<>> THEN <<section_text>> ELSE texts,
                          seen)

\* _parse_hwpx: the loop over section_files.
RECURSIVE HwpxSectionLoop(_, _, _, _)
HwpxSectionLoop(c, todo, texts, order) ==
    IF todo = <<>> THEN Returns(Join(<<NL>>, texts), texts, order)
    ELSE LET d == c.entries[Head(todo)].data
             seen == Append(order, Head(todo))
         IN  IF d.read = "BadZipFile" THEN Returns(MsgHwpxInvalid, texts, seen)
             ELSE IF d.read # "ok" THEN Raises(c.err, texts, seen)
             ELSE IF ExtractTextFromHwpxXml(d) = XmlRaises THEN Raises(c.err, texts, seen)
             ELSE LET section_text == ExtractTextFromHwpxXml(d)
                  IN  HwpxSectionLoop(c, Tail(todo),
                          IF section_text # <<>> THEN Append(texts, section_text) ELSE texts,
                          seen)

\* FileParser._parse_hwpx
ParseHwpx(f) ==
    LET c == f.content
    IN  IF c.kind = "unreadable" THEN Raises(c.err, <<>>, <<>>)
        ELSE IF c.kind # "zip" THEN Returns(MsgHwpxInvalid, <<>>, <<>>)
        ELSE LET file_list == [i \in 1..Len(c.entries) |-> c.entries[i].name]
                 section_files == EntryOrder(file_list)
             IN  IF section_files = <<>> THEN Returns(MsgHwpxNoSection, <<>>, <<>>)
                 ELSE HwpxSectionLoop(c, section_files, <<>>, <<>>)

(***************************************************************************)
(* Page Extractor.                                                         *)
(***************************************************************************)
\* page.extract_text() raising, as a page of the document
PageRaises == <<0 - 2>>

\* A mutant of PdfPageLoop: the check for an empty extracted_texts is left out.
RECURSIVE PdfPageLoopNoSentinel(_, _, _, _)
PdfPageLoopNoSentinel(c, i, texts, order) ==
    IF i > Len(c.pages) THEN Returns(Join(<<NL>>, texts), texts, order)
    ELSE LET page_text == c.pages[i]
             seen == Append(order, i)
         IN  IF page_text = PageRaises THEN Returns(MsgPdfOpenFailed \o c.err, texts, seen)
             ELSE PdfPageLoopNoSentinel(c, i + 1,
                      IF page_text # PyNone /\ page_text # <<>>
                      THEN Append(texts, page_text) ELSE texts,
                      seen)

\* _parse_pdf: the loop over pdf.pages, inside the try, and the check after it.
RECURSIVE PdfPageLoop(_, _, _, _)
PdfPageLoop(c, i, texts, order) ==
    IF i > Len(c.pages)
    THEN IF texts = <<>> THEN Returns(MsgManualCheck, texts, order)
         ELSE Returns(Join(<<NL>>, texts), texts, order)
    ELSE LET page_text == c.pages[i]
             seen == Append(order, i)
         IN  IF page_text = PageRaises THEN Returns(MsgPdfOpenFailed \o c.err, texts, seen)
             ELSE PdfPageLoop(c, i + 1,
                      IF page_text # PyNone /\ page_text # <<>>
                      THEN Append(texts, page_text) ELSE texts,
                      seen)

\* FileParser._parse_pdf
ParsePdf(f) ==
    LET c == f.content
    IN  IF c.kind # "pdf" THEN Returns(MsgPdfOpenFailed \o c.err, <<>>, <<>>)
        ELSE PdfPageLoop(c, 1, <<>>, <<>>)

(***************************************************************************)
(* The handles an extractor acquires (olefile.OleFileIO, zipfile.ZipFile,  *)
(* pdfplumber.open) and those still open when it hands back control.       *)
(***************************************************************************)
NoHandles == [acquired |-> {}, open |-> {}]

\* A mutant of HwpHandles: ole.close() follows the loop, outside any finally.
HwpHandlesNoFinally(f) ==
    IF f.content.kind # "ole" THEN NoHandles
    ELSE [acquired |-> {"ole"},
          open |-> IF ParseHwp(f).kind = "return" /\ SectionOrder(f.content.streams) # <<>>
                   THEN {} ELSE {"ole"}]

\* _parse_hwp: OleFileIO is constructed once isOleFile holds (line 150) and
\* closed in the finally of the try that holds all the rest (lines 153-203).
HwpHandles(f) ==
    IF f.content.kind # "ole" THEN NoHandles
    ELSE [acquired |-> {"ole"}, open |-> {}]

\* _parse_hwpx: the archive is the subject of a with statement (line 344).
HwpxHandles(f) ==
    IF f.content.kind # "zip" THEN NoHandles
    ELSE [acquired |-> {"zip"}, open |-> {}]

\* _parse_pdf: the document is the subject of a with statement (line 455).
PdfHandles(f) ==
    IF f.content.kind # "pdf" THEN NoHandles
    ELSE [acquired |-> {"pdf"}, open |-> {}]

\* parse: the handles of the extractor it calls, none when it calls none.
ParseHandles(f) ==
    LET ext == Lower(SplitExt(f.path))
    IN  IF ~f.exists \/ ext \notin SUPPORTED_EXTENSIONS THEN NoHandles
        ELSE IF ext = ExtHwp THEN HwpHandles(f)
        ELSE IF ext = ExtHwpx THEN HwpxHandles(f)
        ELSE PdfHandles(f)

(***************************************************************************)
(* Format Dispatcher.                                                      *)
(***************************************************************************)
\* The outcome of parse: a returned string, or FileNotFoundError / ValueError
\* raised; with the extractor that ran ("none" when none did) and what it
\* handed back.
NoInner == [kind |-> "none", value |-> <<>>, texts |-> <<>>, order |-> <<>>]
Outcome(kind, value, extractor, inner) ==
    [kind |-> kind, value |-> value, extractor |-> extractor, inner |-> inner]

\* A mutant of Dispatch: an exception of the extractor is not caught.
DispatchNoCatch(f, ext) ==
    LET extractor == IF ext = ExtHwp THEN "hwp"
                     ELSE IF ext = ExtHwpx THEN "hwpx"
                     ELSE IF ext = ExtPdf THEN "pdf" ELSE "none"
        r == IF ext = ExtHwp THEN ParseHwp(f)
             ELSE IF ext = ExtHwpx THEN ParseHwpx(f)
             ELSE IF ext = ExtPdf THEN ParsePdf(f)
             ELSE Returns(<<>>, <<>>, <<>>)
    IN  IF r.kind = "raise" THEN Outcome("Exception", r.value, extractor, r)
        ELSE Outcome("return", CleanText(r.value), extractor, r)

\* parse, lines 98-117: the extractor chosen by ext, its exceptions caught, its
\* text normalised.
Dispatch(f, ext) ==
    LET extractor == IF ext = ExtHwp THEN "hwp"
                     ELSE IF ext = ExtHwpx THEN "hwpx"
                     ELSE IF ext = ExtPdf THEN "pdf" ELSE "none"
        r == IF ext = ExtHwp THEN ParseHwp(f)
             ELSE IF ext = ExtHwpx THEN ParseHwpx(f)
             ELSE IF ext = ExtPdf THEN ParsePdf(f)
             ELSE Returns(<<>>, <<>>, <<>>)
    IN  IF r.kind = "raise"
        THEN Outcome("return", MsgDispatchHead \o ext \o MsgDispatchMid \o r.value,
                     extractor, r)
        ELSE Outcome("return", CleanText(r.value), extractor, r)

\* A mutant of Parse: the extension is checked before the existence.
ParseExtensionFirst(f) ==
    LET ext == Lower(SplitExt(f.path))
    IN  IF ext \notin SUPPORTED_EXTENSIONS
        THEN Outcome("ValueError", <<>>, "none", NoInner)
        ELSE IF ~f.exists THEN Outcome("FileNotFoundError", <<>>, "none", NoInner)
        ELSE Dispatch(f, ext)

\* A mutant of Parse: the extension is compared as written, not lower-cased.
ParseCaseSensitive(f) ==
    IF ~f.exists THEN Outcome("FileNotFoundError", <<>>, "none", NoInner)
    ELSE LET ext == SplitExt(f.path)
         IN  IF ext \notin SUPPORTED_EXTENSIONS
             THEN Outcome("ValueError", <<>>, "none", NoInner)
             ELSE Dispatch(f, ext)

\* FileParser.parse
Parse(f) ==
    IF ~f.exists THEN Outcome("FileNotFoundError", <<>>, "none", NoInner)
    ELSE LET ext == Lower(SplitExt(f.path))
         IN  IF ext \notin SUPPORTED_EXTENSIONS
             THEN Outcome("ValueError", <<>>, "none", NoInner)
             ELSE Dispatch(f, ext)

(***************************************************************************)
(* The files parse is called on: a path, whether it exists, and what the   *)
(* libraries (olefile, zipfile, xml.etree, pdfplumber) make of its bytes.  *)
(***************************************************************************)
MaxStreams == 3    \* most streams in a container
MaxEntries == 3    \* most entries in an archive
MaxPages == 3      \* most pages in a PDF

ErrMsg == <<69>>   \* str(e) of an exception a library raises: "E"

\* tests/test_file_parser.py, _build_hwp_record: header word (and escape size)
\* in little-endian bytes, then the payload.
BuildRecord(tag_id, level, payload) ==
    LET size == Len(payload)
        field == IF size >= 4095 THEN 4095 ELSE size
        lo == (tag_id % 1024) + 1024 * (level % 64)
        hi == ((level % 1024) \div 64) + 16 * field
        word == <<lo % 256, lo \div 256, hi % 256, hi \div 256>>
        extra == <<size % 256, (size \div 256) % 256, (size \div 65536) % 256,
                   size \div 16777216>>
    IN  IF size >= 4095 THEN word \o extra \o payload ELSE word \o payload

\* Section streams: one paragraph "a"; a non-text record, then one paragraph
\* "b"; no text record at all.
RecsA == BuildRecord(67, 0, <<97, 0>>)
RecsB == BuildRecord(66, 1, <<120, 0>>) \o BuildRecord(67, 0, <<98, 0>>)
RecsNoText == BuildRecord(66, 0, <<97, 0>>)

StreamData ==
    { [readable |-> TRUE, deflateOk |-> TRUE, recs |-> RecsA],
      [readable |-> TRUE, deflateOk |-> TRUE, recs |-> RecsB],
      [readable |-> TRUE, deflateOk |-> FALSE, recs |-> RecsA],
      [readable |-> TRUE, deflateOk |-> TRUE, recs |-> RecsNoText],
      [readable |-> FALSE, deflateOk |-> FALSE, recs |-> <<>>] }

\* "BodyText", "DocInfo", "Section2", "Section9", "Section10"
NameBodyText == <<66, 111, 100, 121, 84, 101, 120, 116>>
NameDocInfo == <<68, 111, 99, 73, 110, 102, 111>>
NameSection2 == <<83, 101, 99, 116, 105, 111, 110, 50>>
NameSection9 == <<83, 101, 99, 116, 105, 111, 110, 57>>
NameSection10 == <<83, 101, 99, 116, 105, 111, 110, 49, 48>>

StreamPaths ==
    { <<NameBodyText, NameSection2>>, <<NameBodyText, NameSection9>>,
      <<NameBodyText, NameSection10>>, <<NameDocInfo>> }

\* Sequences of k members of S, no member twice.
InjectiveSeqs(S, k) ==
    {q \in [1..k -> S] : \A i, j \in 1..k : i # j => q[i] # q[j]}

\* FileHeader: absent; 36 bytes, too short to hold the flags; flags byte 1
\* (compressed); flags byte 2 (bit 0 clear).
HeaderBytes(n, flags) == [i \in 1..n |-> IF i = 37 THEN flags ELSE 0]
Headers ==
    { [present |-> FALSE, data |-> <<>>],
      [present |-> TRUE, data |-> HeaderBytes(36, 0)],
      [present |-> TRUE, data |-> HeaderBytes(40, 1)],
      [present |-> TRUE, data |-> HeaderBytes(40, 2)] }

OleContent(header, paths, data) ==
    [kind |-> "ole", err |-> ErrMsg, header |-> header,
     streams |-> [i \in 1..Len(paths) |-> [path |-> paths[i], data |-> data[i]]]]

\* What ET.fromstring makes of an entry, and whether zf.read gives its bytes.
Elem(ns, tag, txt) == [ns |-> ns, tag |-> tag, text |-> txt]
TagSec == <<115, 101, 99>>     \* "sec"
TagP == <<112>>                \* "p"
EntryData ==
    { \* <hs:sec><hp:p><hp:t>a</hp:t></hp:p></hs:sec>, hp the 2011 namespace
      [read |-> "ok", codec |-> Utf8, wellformed |-> TRUE,
       elems |-> <<Elem(4, TagSec, PyNone), Elem(1, TagP, PyNone), Elem(1, TagT, <<97>>)>>],
      \* <x:sec><x:t>b</x:t></x:sec>, x an unknown namespace
      [read |-> "ok", codec |-> Utf8, wellformed |-> TRUE,
       elems |-> <<Elem(4, TagSec, PyNone), Elem(4, TagT, <<98>>)>>],
      \* <sec/>
      [read |-> "ok", codec |-> Utf8, wellformed |-> TRUE, elems |-> <<Elem(0, TagSec, PyNone)>>],
      \* not well-formed XML
      [read |-> "ok", codec |-> Utf8, wellformed |-> FALSE, elems |-> <<>>],
      \* zf.read raises BadZipFile (bad CRC); raises another exception
      [read |-> "BadZipFile", codec |-> Utf8, wellformed |-> FALSE, elems |-> <<>>],
      [read |-> "error", codec |-> Utf8, wellformed |-> FALSE, elems |-> <<>>] }

\* "Contents/section2.xml", "Contents/section10.xml", "Contents/header.xml",
\* "contents/section3.xml", "Contents/section1.xml.bak"
EntrySection2 == <<67, 111, 110, 116, 101, 110, 116, 115, 47, 115, 101, 99, 116, 105, 111, 110, 50, 46, 120, 109, 108>>
EntrySection10 == <<67, 111, 110, 116, 101, 110, 116, 115, 47, 115, 101, 99, 116, 105, 111, 110, 49, 48, 46, 120, 109, 108>>
EntryHeader == <<67, 111, 110, 116, 101, 110, 116, 115, 47, 104, 101, 97, 100, 101, 114, 46, 120, 109, 108>>
EntryLowerSection3 == <<99, 111, 110, 116, 101, 110, 116, 115, 47, 115, 101, 99, 116, 105, 111, 110, 51, 46, 120, 109, 108>>

EntrySection1Bak == <<67, 111, 110, 116, 101, 110, 116, 115, 47, 115, 101, 99, 116, 105, 111, 110, 49, 46, 120, 109, 108, 46, 98, 97, 107>>

EntryNames == {EntrySection2, EntrySection10, EntryHeader, EntryLowerSection3}

\* <?xml version="1.0" encoding="euc-kr"?><sec><t>가</t></sec>
EntryEucKr ==
    [read |-> "ok", codec |-> EucKr, wellformed |-> TRUE,
     elems |-> <<Elem(0, TagSec, PyNone), Elem(0, TagT, <<44032>>)>>]

\* <sec><p:t>a</p:t><q:t>b</q:t></sec>: two t elements, each in a namespace of
\* its own (0 for none)
MixedEntries ==
    { [read |-> "ok", codec |-> Utf8, wellformed |-> TRUE,
       elems |-> <<Elem(4, TagSec, PyNone), Elem(p, TagT, <<97>>), Elem(q, TagT, <<98>>)>>] :
         p \in 0..(KnownNamespaces + 1), q \in 0..(KnownNamespaces + 1) }

\* The entries that are read and parsed as XML, with or without a ParseError.
EntryDataRead == {d \in EntryData : d.read = "ok"}

ZipContent(names, data) ==
    [kind |-> "zip", err |-> ErrMsg,
     entries |-> [i \in 1..Len(names) |-> [name |-> names[i], data |-> data[i]]]]

\* What page.extract_text() gives: None, "", "a", " ", "b", or an exception.
PageTexts == {PyNone, <<>>, <<97>>, <<32>>, <<98>>, PageRaises}

PdfContent(pages) == [kind |-> "pdf", err |-> ErrMsg, pages |-> pages]

\* Bytes that are no container, archive or PDF; a path that cannot be read (a
\* directory, a file without read permission, or no file); a container whose
\* magic number is right and whose directory is broken.
Junk == [kind |-> "junk", err |-> ErrMsg]
Unreadable == [kind |-> "unreadable", err |-> ErrMsg]
OleBroken == [kind |-> "oleBroken", err |-> ErrMsg]

\* One small content of every kind, given to every path.
SmallContents ==
    { Junk, Unreadable, OleBroken,
      OleContent([present |-> FALSE, data |-> <<>>],
                 <<<<NameBodyText, NameSection2>>>>,
                 <<[readable |-> TRUE, deflateOk |-> TRUE, recs |-> RecsA]>>),
      ZipContent(<<EntrySection2>>,
                 <<[read |-> "ok", codec |-> Utf8, wellformed |-> TRUE,
                    elems |-> <<Elem(4, TagSec, PyNone), Elem(4, TagT, <<98>>)>>]>>),
      PdfContent(<<<<97>>>>) }

\* "a.hwp", "a.HWP", "a.Hwp", "a.hwpx", "a.HWPX", "a.pdf", "a.Pdf", "a.b.PDF"
PathHwp == <<97, 46, 104, 119, 112>>
PathHwpx == <<97, 46, 104, 119, 112, 120>>
PathPdf == <<97, 46, 112, 100, 102>>
SupportedPaths ==
    { PathHwp, <<97, 46, 72, 87, 80>>, <<97, 46, 72, 119, 112>>,
      PathHwpx, <<97, 46, 72, 87, 80, 88>>,
      PathPdf, <<97, 46, 80, 100, 102>>, <<97, 46, 98, 46, 80, 68, 70>> }
\* "a.docx", "a.txt", "a", ".hwp", "a.pdf/b", "a.hwp."
OtherPaths ==
    { <<97, 46, 100, 111, 99, 120>>, <<97, 46, 116, 120, 116>>, <<97>>,
      <<46, 104, 119, 112>>, <<97, 46, 112, 100, 102, 47, 98>>,
      <<97, 46, 104, 119, 112, 46>> }
Paths == SupportedPaths \cup OtherPaths

(***************************************************************************)
(* Spec: a caller that hands files to parse, one after the other (the      *)
(* upload loop of app.py, lines 469-482).                                  *)
(***************************************************************************)
NoFile == [path |-> <<>>, exists |-> FALSE, content |-> Unreadable]
NoRet == Outcome("none", <<>>, "none", NoInner)

Init ==
    /\ pc = "idle"
    /\ file = NoFile
    /\ ret = NoRet
    /\ handles = NoHandles
    /\ text = <<>>
    /\ cleaned = <<>>
    /\ passes = 0
    /\ encoded = <<>>
    /\ records = <<>>
    /\ result = <<>>
    /\ calls = <<>>
    /\ frames = <<>>
    /\ CollabIdle
    /\ LoopIdle

\* One parse call, from its argument to its outcome.
Call(f) ==
    /\ file' = f
    /\ ret' = Parse(f)
    /\ handles' = ParseHandles(f)
    /\ pc' = "done"
    /\ UNCHANGED <<collabVars, loopVars, cleanVars, tokenVars, threadVars>>

\* parse on a path where there is no file
ParseMissing ==
    /\ pc = "idle"
    /\ \E p \in Paths : Call([path |-> p, exists |-> FALSE, content |-> Unreadable])

\* parse on an existing path, whatever its extension and its bytes
ParseAnyPath ==
    /\ pc = "idle"
    /\ \E p \in Paths, c \in SmallContents :
          Call([path |-> p, exists |-> TRUE, content |-> c])

\* parse on a .hwp file that is a structured-storage container
ParseOleFile ==
    /\ pc = "idle"
    /\ \E k \in 0..MaxStreams, h \in Headers :
          \E ps \in InjectiveSeqs(StreamPaths, k), d \in [1..k -> StreamData] :
             Call([path |-> PathHwp, exists |-> TRUE, content |-> OleContent(h, ps, d)])

\* parse on a .hwpx file that is a ZIP archive
ParseZipFile ==
    /\ pc = "idle"
    /\ \E k \in 0..MaxEntries :
          \E ns \in InjectiveSeqs(EntryNames, k), d \in [1..k -> EntryData] :
             Call([path |-> PathHwpx, exists |-> TRUE, content |-> ZipContent(ns, d)])

\* parse on a .hwpx file that is a ZIP archive holding an entry whose name
\* goes on after Contents/section<N>.xml, alone or next to one other entry
ParseZipFileWithBackup ==
    /\ pc = "idle"
    /\ \E k \in 0..1, first \in BOOLEAN :
          \E ns \in InjectiveSeqs({EntryHeader, EntrySection2}, k), d \in [1..(k + 1) -> EntryData] :
             Call([path |-> PathHwpx, exists |-> TRUE,
                   content |-> ZipContent(IF first THEN <<EntrySection1Bak>> \o ns
                                          ELSE ns \o <<EntrySection1Bak>>, d)])

\* parse on a .hwpx file that is a ZIP archive of section entries, one of them
\* in an encoding the XML parser does not read
ParseZipFileForeignEncoding ==
    /\ pc = "idle"
    /\ \E k \in 1..MaxEntries, at \in 1..MaxEntries :
          /\ at <= k
          /\ \E d \in [1..k -> EntryDataRead] :
                Call([path |-> PathHwpx, exists |-> TRUE,
                      content |-> ZipContent(
                          SubSeq(<<EntrySection10, EntrySection2, EntryLowerSection3, EntryHeader>>, 1, k),
                          [d EXCEPT ![at] = EntryEucKr])])

\* parse on a .hwpx file that is a ZIP archive of one section entry holding t
\* elements of two namespaces
ParseZipFileMixedNamespaces ==
    /\ pc = "idle"
    /\ \E d \in MixedEntries :
          Call([path |-> PathHwpx, exists |-> TRUE,
                content |-> ZipContent(<<EntrySection2>>, <<d>>)])

\* parse on a .pdf file that pdfplumber opens
ParsePdfFile ==
    /\ pc = "idle"
    /\ \E k \in 0..MaxPages :
          \E ps \in [1..k -> PageTexts] :
             Call([path |-> PathPdf, exists |-> TRUE, content |-> PdfContent(ps)])

\* The caller takes the outcome and goes on to the next file.
NextFile ==
    /\ pc = "done"
    /\ pc' = "idle"
    /\ file' = NoFile
    /\ ret' = NoRet
    /\ handles' = NoHandles
    /\ UNCHANGED <<collabVars, loopVars, cleanVars, tokenVars, threadVars>>

Next ==
    \/ ParseMissing
    \/ ParseAnyPath
    \/ ParseOleFile
    \/ ParseZipFile
    \/ ParseZipFileWithBackup
    \/ ParseZipFileForeignEncoding
    \/ ParseZipFileMixedNamespaces
    \/ ParsePdfFile
    \/ NextFile

Spec == Init /\ [][Next]_vars

(***************************************************************************)
(* Properties of parse.                                                    *)
(***************************************************************************)
Contains(s, sub) ==
    \E i \in 1..(Len(s) - Len(sub) + 1) : SubSeq(s, i, i + Len(sub) - 1) = sub

Supported(f) == Lower(SplitExt(f.path)) \in SUPPORTED_EXTENSIONS

\* C1: on an existing file with a supported extension parse returns a string and
\* raises nothing; an exception raised inside the extractor becomes a returned
\* string that starts with "[파싱 오류]", and the caller goes on to its next file.
C1_ExtractorFailureIsReturned ==
    (pc = "done" /\ file.exists /\ Supported(file)) =>
        /\ ret.kind = "return"
        /\ ret.inner.kind = "raise" => StartsWith(ret.value, ParseErrorTag)
        /\ ENABLED NextFile

C1_Witness ==
    /\ pc = "done" /\ file.exists /\ Supported(file)
    /\ ret.inner.kind = "raise" /\ ret.extractor = "hwp" /\ file.content.kind = "ole"
    /\ ret.kind = "return"

\* C2: on a path where there is no file parse raises FileNotFoundError, whatever
\* the extension, and runs no extractor.
C2_MissingFileRaises ==
    (pc = "done" /\ ~file.exists) =>
        ret.kind = "FileNotFoundError" /\ ret.extractor = "none" /\ ret.inner = NoInner

C2_Witness ==
    /\ pc = "done" /\ ~file.exists /\ ~Supported(file)
    /\ ret.kind = "FileNotFoundError"

\* C3: on an existing file parse raises ValueError exactly when the lower-cased
\* extension is not .hwp, .hwpx or .pdf, and a path in upper or mixed case has
\* the outcome, from the same extractor, of the path in lower case.
C3_UnsupportedIffOutsideSet ==
    (pc = "done" /\ file.exists) =>
        /\ ret.kind = "ValueError" <=> ~Supported(file)
        /\ ret = Parse([file EXCEPT !.path = Lower(file.path)])
        /\ Supported(file) =>
              ret.extractor = (IF Lower(SplitExt(file.path)) = ExtHwp THEN "hwp"
                               ELSE IF Lower(SplitExt(file.path)) = ExtHwpx THEN "hwpx"
                               ELSE "pdf")

C3_Witness ==
    /\ pc = "done" /\ file.exists
    /\ SplitExt(file.path) # Lower(SplitExt(file.path))
    /\ ret.kind = "return" /\ ret.extractor = "hwpx" /\ file.content.kind = "zip"

\* The ways the claim names in which an extraction recovers no text at all.
SelectedEntries(c) == EntryOrder([i \in 1..Len(c.entries) |-> c.entries[i].name])
TotalFailure(f) ==
    LET c == f.content
    IN  \/ c.kind \in {"junk", "unreadable", "oleBroken"}
        \/ /\ c.kind = "ole"
           /\ \/ SectionOrder(c.streams) = <<>>
              \/ /\ IsCompressed(c.header)
                 /\ \A k \in 1..Len(SectionOrder(c.streams)) :
                       LET d == c.streams[SectionOrder(c.streams)[k]].data
                       IN  d.readable /\ ~d.deflateOk
        \/ /\ c.kind = "zip"
           /\ \/ SelectedEntries(c) = <<>>
              \/ \A k \in 1..Len(SelectedEntries(c)) :
                    LET d == c.entries[SelectedEntries(c)[k]].data
                    IN  d.read = "ok" /\ ~d.wellformed
        \/ /\ c.kind = "pdf"
           /\ \A i \in 1..Len(c.pages) : c.pages[i] \in {PyNone, <<>>}

\* C4: the string parse returns is never None, and when the extraction recovers
\* no text at all it is a sentinel, not the empty string.
C4_SentinelOnTotalFailure ==
    (pc = "done" /\ ret.kind = "return") =>
        /\ ret.value # PyNone
        /\ TotalFailure(file) => ret.value # <<>>

\* The bytes of f are not of the format its extension names.
WrongBytes(f) ==
    LET ext == Lower(SplitExt(f.path))
    IN  \/ ext = ExtHwp /\ f.content.kind # "ole"
        \/ ext = ExtHwpx /\ f.content.kind # "zip"
        \/ ext = ExtPdf /\ f.content.kind # "pdf"

\* C7: on an existing .hwp, .hwpx or .pdf file whose bytes are no container, no
\* archive and no PDF, parse returns a string that holds "[파싱 오류]".
C7_InvalidBytesGiveSentinel ==
    (pc = "done" /\ file.exists /\ WrongBytes(file)) =>
        ret.kind = "return" /\ Contains(ret.value, ParseErrorTag)

C7_Witness ==
    /\ pc = "done" /\ file.exists /\ WrongBytes(file)
    /\ file.content.kind = "junk" /\ ret.extractor = "hwp"
    /\ ret.kind = "return" /\ ret.value = MsgHwpInvalid

\* f is a .pdf file that pdfplumber opens.
OpenedPdf(f) ==
    f.exists /\ Lower(SplitExt(f.path)) = ExtPdf /\ f.content.kind = "pdf"

\* C8: a PDF that opens and whose pages all give no text (or that has no page)
\* makes parse return the "[수동 확인 필요]" sentinel, which is not empty and holds
\* no "[파싱 오류]"; once a page gives text, that sentinel is not returned.
C8_ManualCheckSentinel ==
    (pc = "done" /\ OpenedPdf(file)) =>
        LET pages == file.content.pages
        IN  /\ (\A i \in 1..Len(pages) : pages[i] \in {PyNone, <<>>}) =>
                  /\ ret.kind = "return"
                  /\ ret.value = MsgManualCheck
                  /\ ret.value # <<>>
                  /\ ~Contains(ret.value, ParseErrorTag)
            /\ (\E i \in 1..Len(pages) : pages[i] \notin {PyNone, <<>>, PageRaises}) =>
                  ~Contains(ret.value, ManualCheckTag)

C8_Witness ==
    /\ pc = "done" /\ OpenedPdf(file)
    /\ Len(file.content.pages) = 2
    /\ file.content.pages[1] = PyNone /\ file.content.pages[2] = <<>>
    /\ ret.value = MsgManualCheck

\* The number a body-section stream is named by.
SectionNumber(stream_path) ==
    IF stream_path[Len(stream_path)] = NameSection2 THEN 2
    ELSE IF stream_path[Len(stream_path)] = NameSection9 THEN 9
    ELSE IF stream_path[Len(stream_path)] = NameSection10 THEN 10
    ELSE 0

\* The text a section stream gives to the container extractor.
SectionText(c, i) ==
    LET d == c.streams[i].data
    IN  IF IsCompressed(c.header) /\ ~d.deflateOk THEN <<>>
        ELSE ExtractTextFromHwpRecords(d.recs)

\* The members of a sequence of strings that are not empty, in order.
NonEmpty(texts) ==
    LET kept == Filter(Len(texts), [i \in 1..Len(texts) |-> texts[i] # <<>>])
    IN  [k \in 1..Len(kept) |-> texts[kept[k]]]

\* C9: the container extractor visits the body-section streams in ascending
\* order of their number (Section2, Section9, Section10), each once, and its
\* output is their texts in that order, one newline between two.
C9_SectionsInNumericOrder ==
    (pc = "done" /\ ret.extractor = "hwp" /\ file.content.kind = "ole") =>
        LET c == file.content
            order == ret.inner.order
            body == {i \in 1..Len(c.streams) : c.streams[i].path[1] = NameBodyText}
        IN  /\ \A i, j \in 1..Len(order) :
                  i < j => SectionNumber(c.streams[order[i]].path)
                             < SectionNumber(c.streams[order[j]].path)
            /\ {order[i] : i \in 1..Len(order)} \subseteq body
            /\ (ret.inner.kind = "return" /\ body # {}) =>
                  /\ {order[i] : i \in 1..Len(order)} = body
                  /\ ret.inner.value =
                        Join(<<NL>>, NonEmpty([k \in 1..Len(order) |-> SectionText(c, order[k])]))

C9_Witness ==
    /\ pc = "done" /\ ret.extractor = "hwp" /\ file.content.kind = "ole"
    /\ Len(file.content.streams) = 3
    /\ file.content.streams[1].path = <<NameBodyText, NameSection10>>
    /\ file.content.streams[2].path = <<NameBodyText, NameSection9>>
    /\ file.content.streams[3].path = <<NameBodyText, NameSection2>>
    /\ ret.inner.order = <<3, 2, 1>>
    /\ ret.inner.value = <<98, NL, 97, NL, 97>>
    /\ ret.value = <<98, NL, 97, NL, 97>>

\* The number an archive entry Contents/section<N>.xml is named by.
EntryNumber(name) ==
    IF name = EntrySection2 THEN 2
    ELSE IF name = EntrySection10 THEN 10
    ELSE IF name = EntryLowerSection3 THEN 3
    ELSE 0

\* C10: the archive extractor visits the entries Contents/section<N>.xml in
\* ascending order of N (stated for the archives whose entries can all be read).
C10_EntriesInNumericOrder ==
    (/\ pc = "done" /\ ret.extractor = "hwpx" /\ file.content.kind = "zip"
     /\ \A i \in 1..Len(file.content.entries) : file.content.entries[i].data.read = "ok") =>
        LET c == file.content
            order == ret.inner.order
        IN  \A i, j \in 1..Len(order) :
               (/\ i < j
                /\ StartsWith(c.entries[order[i]].name, ContentsSection)
                /\ StartsWith(c.entries[order[j]].name, ContentsSection))
               => EntryNumber(c.entries[order[i]].name) < EntryNumber(c.entries[order[j]].name)

\* Every entry of the archive c can be read.
AllEntriesRead(c) ==
    \A i \in 1..Len(c.entries) :
        c.entries[i].data.read = "ok" /\ c.entries[i].data.codec = Utf8

\* The text each visited entry gives, the empty ones left out.
EntryTexts(c, order) ==
    NonEmpty([k \in 1..Len(order) |-> ExtractTextFromHwpxXml(c.entries[order[k]].data)])

\* C11: for an archive whose entries can all be read, the raw output of the
\* archive extractor is the texts of the selected entries that give text, each
\* whole and once, in the order the entries are visited, with one newline
\* between the texts of two entries.
C11_EntryTextsJoinedInOrder ==
    (/\ pc = "done" /\ ret.extractor = "hwpx" /\ file.content.kind = "zip"
     /\ AllEntriesRead(file.content) /\ SelectedEntries(file.content) # <<>>) =>
        LET c == file.content
            order == ret.inner.order
        IN  /\ ret.inner.kind = "return"
            /\ order = SelectedEntries(c)
            /\ \A i, j \in 1..Len(order) : i # j => order[i] # order[j]
            /\ ret.inner.texts = EntryTexts(c, order)
            /\ ret.inner.value = Join(<<NL>>, EntryTexts(c, order))

C11_Witness ==
    /\ pc = "done" /\ ret.extractor = "hwpx" /\ file.content.kind = "zip"
    /\ AllEntriesRead(file.content)
    /\ Len(ret.inner.order) = 3
    /\ ret.inner.texts = <<<<97>>, <<98>>>>
    /\ ret.inner.value = <<97, NL, 98>>
    /\ ret.value = <<97, NL, 98>>

\* The name is Contents/section<N>.xml, in any case of its letters.
CanonicalName(name) ==
    LET l == Lower(name)
        rest == SubSeq(l, Len(ContentsSection) + 1, Len(l))
        n == LeadingDigits(rest)
    IN  /\ StartsWith(l, Lower(ContentsSection))
        /\ n >= 1
        /\ SubSeq(rest, n + 1, Len(rest)) = DotXml

\* C12: for an archive whose entries can all be read, the entries the archive
\* extractor reads are the entries named Contents/section<N>.xml when there is
\* one, and otherwise every entry under Contents/ whose name ends in .xml.
C12_FallbackIffNoCanonicalEntry ==
    (/\ pc = "done" /\ ret.extractor = "hwpx" /\ file.content.kind = "zip"
     /\ AllEntriesRead(file.content)) =>
        LET c == file.content
            read == {ret.inner.order[k] : k \in 1..Len(ret.inner.order)}
            canonical == {i \in 1..Len(c.entries) : CanonicalName(c.entries[i].name)}
            fallback == {i \in 1..Len(c.entries) :
                            /\ StartsWith(c.entries[i].name, ContentsSlash)
                            /\ EndsWith(c.entries[i].name, DotXml)}
        IN  read = (IF canonical # {} THEN canonical ELSE fallback)

\* The container c has no stream BodyText/Section<N>.
NoBodySection(c) == \A i \in 1..Len(c.streams) : c.streams[i].path[1] # NameBodyText

\* The archive c has no entry Contents/section<N>.xml and no entry under
\* Contents/ whose name ends in .xml.
NoSectionEntry(c) ==
    \A i \in 1..Len(c.entries) :
        /\ ~CanonicalName(c.entries[i].name)
        /\ ~(StartsWith(c.entries[i].name, ContentsSlash) /\ EndsWith(c.entries[i].name, DotXml))

\* C13: a container that opens and has no body-section stream, and an archive
\* that opens and has neither an entry Contents/section<N>.xml nor another XML
\* entry under Contents/, make the extractor return its parse-error sentinel,
\* raising nothing, and parse returns that sentinel.
C13_SentinelWhenNoSection ==
    (pc = "done" /\ file.exists) =>
        /\ (ret.extractor = "hwp" /\ file.content.kind = "ole" /\ NoBodySection(file.content)) =>
              /\ ret.inner.kind = "return" /\ ret.inner.value = MsgHwpNoBodyText
              /\ ret.kind = "return" /\ ret.value = MsgHwpNoBodyText
        /\ (ret.extractor = "hwpx" /\ file.content.kind = "zip" /\ NoSectionEntry(file.content)) =>
              /\ ret.inner.kind = "return" /\ ret.inner.value = MsgHwpxNoSection
              /\ ret.kind = "return" /\ ret.value = MsgHwpxNoSection

CleanAlphabet == {97, 32, NL}

InitClean ==
    /\ \E k \in 0..MaxLen : text \in [1..k -> CleanAlphabet] \cup {PyNone}
    /\ cleaned = text
    /\ passes = 0
    /\ file = NoFile
    /\ ret = NoRet
    /\ pc = "idle"
    /\ handles = NoHandles
    /\ encoded = <<>>
    /\ records = <<>>
    /\ result = <<>>
    /\ calls = <<>>
    /\ frames = <<>>
    /\ CollabIdle
    /\ LoopIdle

CleanStep ==
    /\ passes < MaxPasses
    /\ cleaned' = CleanText(cleaned)
    /\ passes' = passes + 1
    /\ UNCHANGED <<collabVars, loopVars, text, file, ret, pc, handles, tokenVars, threadVars>>

NextClean == CleanStep

SpecClean == InitClean /\ [][NextClean]_vars

(***************************************************************************)
(* Properties of _clean_text.                                              *)
(***************************************************************************)
\* C5: _clean_text is idempotent: applied to its own result it changes nothing.
C5_CleanTextIdempotent == [][passes = 1 => cleaned' = cleaned]_vars

NoLongNewlineRun(s) ==
    ~\E i \in 1..(Len(s) - 2) : s[i] = NL /\ s[i + 1] = NL /\ s[i + 2] = NL
NoEdgeSpace(s) == s = <<>> \/ (~IsSpace(s[1]) /\ ~IsSpace(s[Len(s)]))

\* C6: the result of _clean_text holds no run of three or more newlines, none
\* of its lines and neither of its ends has white space, and the empty string
\* and None give the empty string.
C6_CleanTextShape ==
    passes = 1 =>
        /\ NoLongNewlineRun(cleaned)
        /\ \A k \in 1..Len(Split(cleaned, NL)) : NoEdgeSpace(Split(cleaned, NL)[k])
        /\ NoEdgeSpace(cleaned)
        /\ text \in {<<>>, PyNone} => cleaned = <<>>

(***************************************************************************)
(* SpecDecode: _decode_hwp_text applied to the UTF-16LE bytes of every     *)
(* string of at most MaxChars characters over StringAlphabet, and to every *)
(* payload of at most MaxUnits code units over UnitAlphabet, with and      *)
(* without an odd byte at its end.                                         *)
(***************************************************************************)
MaxChars == 4      \* longest string encoded and decoded again
MaxUnits == 3      \* most code units in a payload

\* str.encode("utf-16-le") of one character: a code point of the Basic
\* Multilingual Plane is one code unit, any other a surrogate pair.
EncodeChar(cp) ==
    IF cp < 65536 THEN <<cp % 256, cp \div 256>>
    ELSE LET v == cp - 65536
             high == 55296 + (v \div 1024)
             low == 56320 + (v % 1024)
         IN  <<high % 256, high \div 256, low % 256, low \div 256>>

\* str.encode("utf-16-le")
RECURSIVE EncodeUtf16LE(_)
EncodeUtf16LE(s) ==
    IF s = <<>> THEN <<>> ELSE EncodeChar(Head(s)) \o EncodeUtf16LE(Tail(s))

\* 'a', '가', U+1F600 (outside the Basic Multilingual Plane), tab
StringAlphabet == {97, 44032, 128512, 9}
\* field start, paragraph end, the last control code, ' ', '가', '나'
UnitAlphabet == {3, 13, 31, 32, 44032, 45208}

InitDecode ==
    /\ \/ /\ \E k \in 0..MaxChars : text \in [1..k -> StringAlphabet]
          /\ encoded = EncodeUtf16LE(text)
       \/ /\ text = PyNone
          /\ \E k \in 0..MaxUnits :
                \E units \in [1..k -> UnitAlphabet], odd \in {<<>>, <<97>>} :
                   encoded = EncodeUtf16LE(units) \o odd
    /\ result = <<>>
    /\ pc = "idle"
    /\ file = NoFile
    /\ ret = NoRet
    /\ handles = NoHandles
    /\ cleaned = <<>>
    /\ passes = 0
    /\ records = <<>>
    /\ calls = <<>>
    /\ frames = <<>>
    /\ CollabIdle
    /\ LoopIdle

DecodeCall ==
    /\ pc = "idle"
    /\ result' = DecodeHwpText(encoded)
    /\ pc' = "done"
    /\ UNCHANGED <<collabVars, loopVars, file, ret, handles, cleanVars, encoded, records, threadVars>>

NextDecode == DecodeCall

SpecDecode == InitDecode /\ [][NextDecode]_vars

(***************************************************************************)
(* Properties of _decode_hwp_text.                                         *)
(***************************************************************************)
\* C14: decoding the UTF-16LE bytes of a string that holds no character of
\* 0x1F or below gives the string back, also when the string holds characters
\* outside the Basic Multilingual Plane.
C14_DecodeRoundTrip ==
    (pc = "done" /\ text # PyNone /\ \A i \in 1..Len(text) : text[i] > 31) =>
        result = text

\* The code units of a payload, in order; an odd last byte is no unit.
Units(data) == [k \in 1..(Len(data) \div 2) |-> U16(data, 2 * (k - 1))]

\* C15: every code unit is decoded by itself: 0x000D gives one newline, another
\* unit of 0x001F or below gives nothing, any other unit gives the one character
\* of its value; the output holds no character below 0x20 but the newline.
C15_UnitsDecodedOneByOne ==
    pc = "done" =>
        LET units == Units(encoded)
            kept == Filter(Len(units),
                           [k \in 1..Len(units) |-> units[k] = 13 \/ units[k] > 31])
        IN  /\ result = [j \in 1..Len(kept) |->
                            IF units[kept[j]] = 13 THEN NL ELSE units[kept[j]]]
            /\ \A j \in 1..Len(result) : result[j] = NL \/ result[j] >= 32

C15_Witness ==
    /\ pc = "done"
    /\ Units(encoded) = <<44032, 13, 45208>>
    /\ result = <<44032, NL, 45208>>

(***************************************************************************)
(* SpecRecords: _extract_text_from_hwp_records applied to every stream of  *)
(* at most MaxRecords records, each built by _build_hwp_record from one of *)
(* RecordChoices.                                                          *)
(***************************************************************************)
MaxRecords == 3    \* most records in a section stream

\* A payload of n bytes: "aaa..." in UTF-16LE (and half a unit when n is odd).
LongPayload(n) == [i \in 1..n |-> IF i % 2 = 1 THEN 97 ELSE 0]

Record(tag_id, level, payload) == [tag_id |-> tag_id, level |-> level, payload |-> payload]

\* Text records "a", " ", "b<paragraph end>"; non-text records whose payloads
\* are "a" and a whole text record "c".
RecordChoices ==
    { Record(67, 0, <<97, 0>>),
      Record(67, 0, <<32, 0>>),
      Record(67, 1, <<98, 0, 13, 0>>),
      Record(66, 1, <<97, 0>>),
      Record(10, 0, BuildRecord(67, 0, <<99, 0>>)) }

\* Text records of 4094, 4095 and 4096 payload bytes, around the size the
\* 12-bit field cannot hold.
LongRecords ==
    { Record(67, 0, LongPayload(4094)),
      Record(67, 0, LongPayload(4095)),
      Record(67, 2, LongPayload(4096)) }

\* What stands before and after a long record: nothing, a text record "b", a
\* non-text record.
Neighbours == {<<>>, <<Record(67, 0, <<98, 0>>)>>, <<Record(66, 1, <<97, 0>>)>>}

\* records += self._build_hwp_record(...) for every record
RECURSIVE BuildStream(_)
BuildStream(recs) ==
    IF recs = <<>> THEN <<>>
    ELSE BuildRecord(Head(recs).tag_id, Head(recs).level, Head(recs).payload)
             \o BuildStream(Tail(recs))

InitRecords ==
    /\ \/ \E k \in 0..MaxRecords : records \in [1..k -> RecordChoices]
       \/ \E long \in LongRecords, before \in Neighbours, after \in Neighbours :
             records = before \o <<long>> \o after
    /\ encoded = BuildStream(records)
    /\ result = <<>>
    /\ pc = "idle"
    /\ file = NoFile
    /\ ret = NoRet
    /\ handles = NoHandles
    /\ text = <<>>
    /\ cleaned = <<>>
    /\ passes = 0
    /\ calls = <<>>
    /\ frames = <<>>
    /\ CollabIdle
    /\ LoopIdle

ExtractCall ==
    /\ pc = "idle"
    /\ result' = ExtractTextFromHwpRecords(encoded)
    /\ pc' = "done"
    /\ UNCHANGED <<collabVars, loopVars, file, ret, handles, cleanVars, encoded, records, threadVars>>

NextRecords == ExtractCall

SpecRecords == InitRecords /\ [][NextRecords]_vars

(***************************************************************************)
(* Properties of _extract_text_from_hwp_records.                           *)
(***************************************************************************)
\* Payloads to put in the place of the payload of a non-text record.
OtherPayloads ==
    { <<98, 0>>, <<13, 0>>, <<67, 0>>,
      BuildRecord(67, 0, <<100, 0>>), BuildRecord(66, 0, <<0, 0>>), <<67, 0, 240, 255, 1, 0>> }

\* The records of recs whose tagId is 67, in order.
TextRecords(recs) ==
    LET kept == Filter(Len(recs), [i \in 1..Len(recs) |-> recs[i].tag_id = 67])
    IN  [k \in 1..Len(kept) |-> recs[kept[k]]]

\* C16: a record whose tagId is not 67 gives no text whatever its payload is:
\* the extracted text is the text of the stream without that record, and stays
\* the same when the payload is replaced by any other payload of its length.
C16_NonTextPayloadIgnored ==
    pc = "done" =>
        /\ result = ExtractTextFromHwpRecords(BuildStream(TextRecords(records)))
        /\ \A i \in 1..Len(records) : \A p \in OtherPayloads :
              (records[i].tag_id # 67 /\ Len(p) = Len(records[i].payload)) =>
                 ExtractTextFromHwpRecords(
                     BuildStream([records EXCEPT ![i].payload = p])) = result

C16_Witness ==
    /\ pc = "done"
    /\ records = <<Record(10, 0, BuildRecord(67, 0, <<99, 0>>)), Record(67, 0, <<97, 0>>)>>
    /\ result = <<97>>

\* C17: every record of tagId 67 of a well-formed stream gives its whole decoded
\* text to the result, in the order of the stream, one newline between two (a
\* record whose decoded text is empty has nothing to give).
C17_EveryTextRecordContributes ==
    pc = "done" =>
        LET recs == TextRecords(records)
        IN  result = Join(<<NL>>,
                NonEmpty([k \in 1..Len(recs) |-> DecodeHwpText(recs[k].payload)]))

\* The offset in the stream of the header of record i.
RECURSIVE RecordOffset(_, _)
RecordOffset(recs, i) ==
    IF i = 1 THEN 0
    ELSE RecordOffset(recs, i - 1)
             + Len(BuildRecord(recs[i - 1].tag_id, recs[i - 1].level, recs[i - 1].payload))

\* The decoded texts the tokenizer keeps: those of the text records that are
\* not white space only.
KeptTexts(recs) ==
    LET text_recs == TextRecords(recs)
        texts == [k \in 1..Len(text_recs) |-> DecodeHwpText(text_recs[k].payload)]
        kept == Filter(Len(texts), [k \in 1..Len(texts) |-> Strip(texts[k]) # <<>>])
    IN  [j \in 1..Len(kept) |-> texts[kept[j]]]

\* C18: a record of 4095 payload bytes or more is built with the size field
\* 0xFFF and its length in the four bytes after the header, and is tokenized
\* with that length: its whole payload is decoded and the record after it is
\* found; a shorter record carries its length in the size field alone.
C18_EscapeSizeRoundTrip ==
    pc = "done" =>
        /\ \A i \in 1..Len(records) :
              LET at == RecordOffset(records, i)
                  size == Len(records[i].payload)
              IN  /\ HeaderTagId(encoded, at) = records[i].tag_id
                  /\ size < 4095 => HeaderSize(encoded, at) = size
                  /\ size >= 4095 =>
                        /\ HeaderSize(encoded, at) = 4095
                        /\ EscapeSize(encoded, at + 4) = size
        /\ result = Join(<<NL>>, KeptTexts(records))

C18_Witness ==
    /\ pc = "done"
    /\ records = <<Record(66, 1, <<97, 0>>), Record(67, 2, LongPayload(4096)),
                   Record(67, 0, <<98, 0>>)>>
    /\ Len(result) = 2048 + 1 + 1
    /\ result[2048] = 97 /\ result[2049] = NL /\ result[2050] = 98

(***************************************************************************)
(* SpecThreads: parse calls made at the same time by the threads of a      *)
(* caller on one FileParser, each call going through the statements of     *)
(* parse one at a time while the other calls go through theirs.            *)
(***************************************************************************)
MaxCalls == 2      \* parse calls made by one thread

Threads == {1, 2}

\* The cells a value can be kept in: cell 0 stands for an attribute of the
\* FileParser instance (__init__ sets none), cell t for the frame of the call
\* thread t is in.
NoText == <<0 - 3>>
InstanceCell == 0
Cells == {InstanceCell} \cup Threads

\* A mutant of TextSlot: the text is kept on the instance, as self.text.
TextSlotOnInstance(t) == InstanceCell

\* parse, lines 100-114: text is a local variable of the call.
TextSlot(t) == t

\* The files the threads parse: no file; a .docx; a container, an archive and
\* a PDF holding "a", "b" and "a"; a .hwp that is no container.
ThreadFiles ==
    { [path |-> PathHwp, exists |-> FALSE, content |-> Unreadable],
      [path |-> <<97, 46, 100, 111, 99, 120>>, exists |-> TRUE, content |-> Junk],
      [path |-> PathHwp, exists |-> TRUE,
       content |-> OleContent([present |-> FALSE, data |-> <<>>],
                              <<<<NameBodyText, NameSection2>>>>,
                              <<[readable |-> TRUE, deflateOk |-> TRUE, recs |-> RecsA]>>)],
      [path |-> PathHwpx, exists |-> TRUE,
       content |-> ZipContent(<<EntrySection2>>,
                              <<[read |-> "ok", codec |-> Utf8, wellformed |-> TRUE,
                                 elems |-> <<Elem(4, TagSec, PyNone), Elem(4, TagT, <<98>>)>>]>>)],
      [path |-> PathPdf, exists |-> TRUE, content |-> PdfContent(<<<<97>>, <<32>>>>)],
      [path |-> PathHwp, exists |-> TRUE, content |-> OleBroken] }

NoCall == [pc |-> "idle", file |-> NoFile, ext |-> <<>>, inner |-> NoInner,
           ret |-> NoRet, made |-> 0]

InitThreads ==
    /\ calls = [t \in Threads |-> NoCall]
    /\ frames = [c \in Cells |-> NoText]
    /\ CollabIdle
    /\ LoopIdle
    /\ pc = "idle"
    /\ file = NoFile
    /\ ret = NoRet
    /\ handles = NoHandles
    /\ text = <<>>
    /\ cleaned = <<>>
    /\ passes = 0
    /\ encoded = <<>>
    /\ records = <<>>
    /\ result = <<>>

\* Thread t calls parser.parse(f).
Enter(t) ==
    /\ calls[t].pc = "idle"
    /\ calls[t].made < MaxCalls
    /\ \E f \in ThreadFiles :
          calls' = [calls EXCEPT ![t] = [NoCall EXCEPT !.pc = "exists", !.file = f,
                                                       !.made = calls[t].made]]
    /\ UNCHANGED <<collabVars, loopVars, file, ret, pc, handles, cleanVars, tokenVars, frames>>

\* if not os.path.exists(file_path): raise FileNotFoundError
CheckExists(t) ==
    /\ calls[t].pc = "exists"
    /\ calls' = [calls EXCEPT ![t] =
                    IF ~calls[t].file.exists
                    THEN [calls[t] EXCEPT !.pc = "returned",
                              !.ret = Outcome("FileNotFoundError", <<>>, "none", NoInner)]
                    ELSE [calls[t] EXCEPT !.pc = "ext"]]
    /\ UNCHANGED <<collabVars, loopVars, file, ret, pc, handles, cleanVars, tokenVars, frames>>

\* ext = splitext(file_path)[1].lower(); if ext not in SUPPORTED_EXTENSIONS:
\* raise ValueError
CheckExtension(t) ==
    /\ calls[t].pc = "ext"
    /\ LET ext == Lower(SplitExt(calls[t].file.path))
       IN  calls' = [calls EXCEPT ![t] =
                        IF ext \notin SUPPORTED_EXTENSIONS
                        THEN [calls[t] EXCEPT !.pc = "returned",
                                  !.ret = Outcome("ValueError", <<>>, "none", NoInner)]
                        ELSE [calls[t] EXCEPT !.pc = "extract", !.ext = ext]]
    /\ UNCHANGED <<collabVars, loopVars, file, ret, pc, handles, cleanVars, tokenVars, frames>>

\* text = self._parse_hwp(file_path) (or _parse_hwpx, _parse_pdf), inside the
\* try whose except returns the error string.
RunExtractor(t) ==
    /\ calls[t].pc = "extract"
    /\ LET f == calls[t].file
           ext == calls[t].ext
           extractor == IF ext = ExtHwp THEN "hwp" ELSE IF ext = ExtHwpx THEN "hwpx" ELSE "pdf"
           r == IF ext = ExtHwp THEN ParseHwp(f)
                ELSE IF ext = ExtHwpx THEN ParseHwpx(f)
                ELSE ParsePdf(f)
       IN  IF r.kind = "raise"
           THEN /\ calls' = [calls EXCEPT ![t] = [calls[t] EXCEPT !.pc = "returned", !.inner = r,
                                !.ret = Outcome("return",
                                            MsgDispatchHead \o ext \o MsgDispatchMid \o r.value,
                                            extractor, r)]]
                /\ UNCHANGED frames
           ELSE /\ calls' = [calls EXCEPT ![t] = [calls[t] EXCEPT !.pc = "clean", !.inner = r]]
                /\ frames' = [frames EXCEPT ![TextSlot(t)] = r.value]
    /\ UNCHANGED <<collabVars, loopVars, file, ret, pc, handles, cleanVars, tokenVars>>

\* text = self._clean_text(text); return text
CleanAndReturn(t) ==
    /\ calls[t].pc = "clean"
    /\ LET ext == calls[t].ext
           extractor == IF ext = ExtHwp THEN "hwp" ELSE IF ext = ExtHwpx THEN "hwpx" ELSE "pdf"
       IN  calls' = [calls EXCEPT ![t] = [calls[t] EXCEPT !.pc = "returned",
                        !.ret = Outcome("return", CleanText(frames[TextSlot(t)]),
                                        extractor, calls[t].inner)]]
    /\ UNCHANGED <<collabVars, loopVars, file, ret, pc, handles, cleanVars, tokenVars, frames>>

\* The caller of thread t has the outcome; the frame of the call is gone.
Leave(t) ==
    /\ calls[t].pc = "returned"
    /\ calls' = [calls EXCEPT ![t] = [NoCall EXCEPT !.made = calls[t].made + 1]]
    /\ frames' = [frames EXCEPT ![t] = NoText]
    /\ UNCHANGED <<collabVars, loopVars, file, ret, pc, handles, cleanVars, tokenVars>>

NextThreads ==
    \E t \in Threads :
        \/ Enter(t)
        \/ CheckExists(t)
        \/ CheckExtension(t)
        \/ RunExtractor(t)
        \/ CleanAndReturn(t)
        \/ Leave(t)

SpecThreads == InitThreads /\ [][NextThreads]_vars

(***************************************************************************)
(* Properties of parse calls made at the same time.                        *)
(***************************************************************************)
\* C20: whatever the other thread does in between, a parse call ends with the
\* outcome it has when run alone, and nothing is kept on the FileParser that a
\* later call could read.
C20_CallsShareNoState ==
    /\ \A t \in Threads : calls[t].pc = "returned" => calls[t].ret = Parse(calls[t].file)
    /\ frames[InstanceCell] = NoText

C20_Witness ==
    /\ calls[1].pc = "returned" /\ calls[1].made = 1
    /\ calls[1].ret.value = <<97>> /\ calls[1].ret.extractor = "hwp"
    /\ calls[2].pc = "clean" /\ calls[2].ret = NoRet
    /\ frames[2] = <<98>>

(***************************************************************************)
(* database/dao.py: the projects table and ProjectDAO.insert_project.      *)
(* A dict is a function from its keys; a row keeps the columns the checks  *)
(* of insert_project read (id, title, agency, end_date), the other columns *)
(* being copies of the argument's fields or their defaults.                *)
(***************************************************************************)
MaxInserts == 3    \* insert_project calls made on one database

\* data.get(key, default)
Get(d, key, default) == IF key \in DOMAIN d THEN d[key] ELSE default

\* hashlib.sha256(raw.encode("utf-8")).hexdigest()[:16]: the digest of raw, a
\* value that depends on raw alone and that two different raw strings of the
\* model do not share
Sha256Hex16(raw) == <<0 - 4>> \o raw

Bar == <<124>>    \* "|"

GenerateId(title, agency, date_str) ==
    Sha256Hex16(Strip(title) \o Bar \o Strip(agency) \o Bar \o Strip(date_str))

NOISE_KEYWORDS ==
    << <<54665, 49324>>,                              \* 행사
       <<44368, 50977>>,                              \* 교육
       <<49464, 48120, 45208>>,                       \* 세미나
       <<49444, 47749, 54924>>,                       \* 설명회
       <<47704, 53664, 47553>>,                       \* 멘토링
       <<51077, 51452, 44592, 50629>>,                \* 입주기업
       <<51204, 49884, 54924, 32, 52280, 44032>>,     \* 전시회 참가
       <<47116, 53448>>,                              \* 렌탈
       <<44396, 47588>>,                              \* 구매
       <<44277, 49324>>,                              \* 공사
       <<49884, 44277>>,                              \* 시공
       <<51064, 53580, 47532, 50612>>,                \* 인테리어
       <<52397, 49548>>,                              \* 청소
       <<44221, 48708>> >>                            \* 경비

\* is_noise with "title == keyword" in the place of "keyword in title"
IsNoiseWholeTitle(title) ==
    \E i \in 1..Len(NOISE_KEYWORDS) : title = NOISE_KEYWORDS[i]

IsNoise(title) ==
    \E i \in 1..Len(NOISE_KEYWORDS) : Contains(title, NOISE_KEYWORDS[i])

\* SELECT 1 FROM projects WHERE id = ?
Exists(table, id) == \E r \in table : r.id = id

\* INSERT INTO projects under the schema of init_database: id is the PRIMARY
\* KEY and title is NOT NULL, so the statement raises sqlite3.IntegrityError
\* (ok = FALSE) on a row that breaks either, and adds the row otherwise
SqlInsert(table, row) ==
    IF (\E r \in table : r.id = row.id) \/ row.title = PyNone
    THEN [ok |-> FALSE, table |-> table]
    ELSE [ok |-> TRUE, table |-> table \cup {row}]

\* data.get("id") or self.generate_id(title, agency, end_date)
ProjectId(d, title, agency, end_date) ==
    LET given == Get(d, "id", PyNone)
    IN  IF given # PyNone /\ given # <<>> THEN given
        ELSE GenerateId(title, agency, end_date)

ProjectRow(d) ==
    LET title == Strip(Get(d, "title", <<>>))
        agency == Get(d, "agency", <<>>)
        end_date == Get(d, "end_date", <<>>)
    IN  [id |-> ProjectId(d, title, agency, end_date),
         title |-> title,
         agency |-> agency,
         end_date |-> IF end_date = <<>> THEN PyNone ELSE end_date]

\* insert_project with INSERT OR REPLACE in the place of the exists check
InsertProjectReplace(table, d) ==
    LET row == ProjectRow(d)
    IN  IF row.title = <<>> THEN [ret |-> PyNone, table |-> table]
        ELSE IF IsNoise(row.title) THEN [ret |-> PyNone, table |-> table]
        ELSE [ret |-> row.id,
              table |-> {r \in table : r.id # row.id} \cup {row}]

\* insert_project on the table, for the argument d: what it returns and the
\* table it leaves
InsertProject(table, d) ==
    LET row == ProjectRow(d)
        ins == SqlInsert(table, row)
    IN  IF row.title = <<>> THEN [ret |-> PyNone, table |-> table]
        ELSE IF IsNoise(row.title) THEN [ret |-> PyNone, table |-> table]
        ELSE IF Exists(table, row.id) THEN [ret |-> PyNone, table |-> table]
        ELSE IF ins.ok THEN [ret |-> row.id, table |-> ins.table]   \* commit
        ELSE [ret |-> PyNone, table |-> table]                      \* rollback

(***************************************************************************)
(* Arguments of insert_project.                                            *)
(***************************************************************************)
Absent == <<0 - 5>>    \* stands for a key the dict does not hold

Dict(title, agency, end_date, id) ==
    LET all == [title |-> title, agency |-> agency, end_date |-> end_date, id |-> id]
        keys == {k \in DOMAIN all : all[k] # Absent}
    IN  [k \in keys |-> all[k]]

TitleA == <<97>>                               \* "a"
TitlePadded == <<32, 97, 32>>                  \* " a "
TitleBlank == <<32>>                           \* " "
TitleEducation == <<32, 97, 44368, 50977>>     \* " a교육"
AgencyN == <<110>>                             \* "n"
EndDateD == <<100>>                            \* "d"
IdK == <<107>>                                 \* "k"

InsertTitles == {Absent, <<>>, TitleBlank, TitleA, TitlePadded, TitleEducation}
InsertAgencies == {Absent, AgencyN}
InsertEndDates == {Absent, EndDateD}
InsertIds == {Absent, <<>>, IdK, GenerateId(TitleA, <<>>, <<>>)}

(***************************************************************************)
(* SpecDao: a caller that makes insert_project calls on one connection,    *)
(* one after the other.                                                    *)
(***************************************************************************)
\* ProjectDAO(conn) on a new database: init_database has made the empty table.
InitDao ==
    /\ CollabIdle
    /\ LoopIdle
    /\ pc = "idle"
    /\ file = NoFile
    /\ ret = NoRet
    /\ handles = NoHandles
    /\ text = <<>>
    /\ cleaned = <<>>
    /\ passes = 0
    /\ encoded = <<>>
    /\ records = <<>>
    /\ result = <<>>
    /\ calls = <<>>
    /\ frames = <<>>

InsertProjectCall ==
    /\ pc = "idle"
    /\ inserts < MaxInserts
    /\ \E t \in InsertTitles, a \in InsertAgencies, e \in InsertEndDates, i \in InsertIds :
          LET d == Dict(t, a, e, i)
              out == InsertProject(projects, d)
          IN  /\ insert_data' = d
              /\ rows_before' = projects
              /\ projects' = out.table
              /\ project_id' = out.ret
    /\ inserts' = inserts + 1
    /\ UNCHANGED <<pc, parserVars, aiVars>>

NextDao == InsertProjectCall

SpecDao == InitDao /\ [][NextDao]_vars

(***************************************************************************)
(* Properties of insert_project.                                           *)
(***************************************************************************)
TitleOf(d) == IF "title" \in DOMAIN d THEN Strip(d["title"]) ELSE <<>>

HasNoise(title) ==
    \E i \in DOMAIN NOISE_KEYWORDS : Contains(title, NOISE_KEYWORDS[i])

PassesTitleChecks(d) == TitleOf(d) # <<>> /\ ~HasNoise(TitleOf(d))

\* the ID of a project: the supplied id, or else the hash of title|agency|end_date
IdOf(d) ==
    IF "id" \in DOMAIN d /\ d["id"] # <<>> THEN d["id"]
    ELSE GenerateId(TitleOf(d),
                    IF "agency" \in DOMAIN d THEN d["agency"] ELSE <<>>,
                    IF "end_date" \in DOMAIN d THEN d["end_date"] ELSE <<>>)

\* C21: the projects table holds at most one row per project ID; an insert
\* (of a project that passes the title checks) whose ID is already in the table
\* returns None and leaves the table as it was, and the first insert of an ID
\* returns that ID and adds exactly one row, the row of that ID.
C21_OneRowPerProjectId ==
    /\ \A r1 \in projects, r2 \in projects : r1.id = r2.id => r1 = r2
    /\ (inserts > 0 /\ PassesTitleChecks(insert_data)) =>
          IF \E r \in rows_before : r.id = IdOf(insert_data)
          THEN project_id = PyNone /\ projects = rows_before
          ELSE /\ project_id = IdOf(insert_data)
               /\ Cardinality(projects) = Cardinality(rows_before) + 1
               /\ \E r \in projects :
                     r.id = IdOf(insert_data) /\ projects = rows_before \cup {r}

C21_Witness ==
    /\ inserts = 2
    /\ PassesTitleChecks(insert_data)
    /\ "id" \in DOMAIN insert_data /\ insert_data["id"] = GenerateId(TitleA, <<>>, <<>>)
    /\ project_id = PyNone
    /\ Cardinality(projects) = 1

\* C22: an insert whose title is empty after trimming, or holds a configured
\* noise keyword, returns None and leaves the projects table as it was; no row
\* of the table has an empty or noise title.
C22_EmptyOrNoiseTitleRejected ==
    /\ (inserts > 0 /\ ~PassesTitleChecks(insert_data)) =>
          project_id = PyNone /\ projects = rows_before
    /\ \A r \in projects : Strip(r.title) # <<>> /\ ~HasNoise(r.title)

C22_Witness ==
    /\ inserts = 2
    /\ "title" \in DOMAIN insert_data /\ insert_data["title"] = TitleEducation
    /\ project_id = PyNone
    /\ Cardinality(projects) = 1


(***************************************************************************)
(* intelligence/ai_analyzer.py: AIAnalyzer._call_api and what it calls.    *)
(* A JSON value is a record of its kind and its value; a dict is a         *)
(* function from its keys, a list is kept by its length.                   *)
(***************************************************************************)
MaxRetries == 2    \* largest max_retries given to _call_api

JNull == [kind |-> "null", val |-> <<>>]         \* None
JAbsent == [kind |-> "absent", val |-> <<>>]     \* stands for a key a dict does not hold
JBool(b) == [kind |-> "bool", val |-> <<IF b THEN 1 ELSE 0>>]
JInt(n) == [kind |-> "int", val |-> <<n>>]
JStr(s) == [kind |-> "str", val |-> s]
JList(n) == [kind |-> "list", val |-> <<n>>]
JDict(f) == [kind |-> "dict", val |-> f]

\* bool(x) of Python
Truthy(x) ==
    CASE x.kind = "null" -> FALSE
      [] x.kind = "bool" -> x.val = <<1>>
      [] x.kind = "int" -> x.val # <<0>>
      [] x.kind = "str" -> x.val # <<>>
      [] x.kind = "list" -> x.val # <<0>>
      [] x.kind = "dict" -> DOMAIN x.val # {}
      [] OTHER -> FALSE

\* x.get(key, default); an object that is no dict has no attribute get
DictGet(x, key, default) == IF key \in DOMAIN x.val THEN x.val[key] ELSE default

\* _parse_json_response: the content is kept by its form and by the JSON value
\* written in it.  Empty content gives None; json.loads reads a plain JSON
\* text; a fenced block is found by the regular expression; inside prose only
\* what lies from the first { to the last } is read, so only an object is found
\* there; anything else gives None.
ParseJsonResponse(raw_content) ==
    CASE raw_content.form = "empty" -> JNull
      [] raw_content.form = "plain" -> raw_content.value
      [] raw_content.form = "fenced" -> raw_content.value
      [] raw_content.form = "prose" ->
            IF raw_content.value.kind = "dict" THEN raw_content.value ELSE JNull
      [] OTHER -> JNull

\* _apply_kill_switch that leaves the score of the response as it is
ApplyKillSwitchKeepsScore(res) ==
    IF res.kind # "dict" THEN [raised |-> TRUE, value |-> JNull]
    ELSE IF DictGet(res, "kill_switch", JDict(<<>>)).kind # "dict"
         THEN [raised |-> TRUE, value |-> JNull]
         ELSE [raised |-> FALSE, value |-> res]

\* _apply_kill_switch: AttributeError (raised) when the result, or its kill_switch,
\* is no dict
ApplyKillSwitch(res) ==
    IF res.kind # "dict" THEN [raised |-> TRUE, value |-> JNull]
    ELSE LET kill_switch == DictGet(res, "kill_switch", JDict(<<>>))
         IN  IF kill_switch.kind # "dict" THEN [raised |-> TRUE, value |-> JNull]
             ELSE IF Truthy(DictGet(kill_switch, "triggered", JBool(FALSE)))
                  THEN [raised |-> FALSE,
                        value |-> JDict([k \in DOMAIN res.val \cup {"suitability_score"} |->
                                            IF k = "suitability_score" THEN JInt(0)
                                            ELSE res.val[k]])]
                  ELSE [raised |-> FALSE, value |-> res]

MsgApiError == <<65, 80, 73, 32, 50724, 47448, 58, 32>>                      \* "API 오류: "
MsgJsonFailed == <<74, 83, 79, 78, 32, 54028, 49905, 32, 49892, 54056>>      \* "JSON 파싱 실패"

DefaultResult(reason) ==
    JDict([kill_switch |-> JDict([triggered |-> JBool(FALSE), reason |-> JStr(reason)]),
           suitability_score |-> JInt(0 - 1),
           target_entity |-> JStr(<<>>),
           ai_summary |-> JStr(reason)])

\* The body of the try statement for one value of attempt, on what create gave:
\* "return" with the result, "except" when it raised (create itself, the slice
\* of a content that is None, or _apply_kill_switch), "fall" when the parse
\* gave a falsy value and the loop goes on.
TryBody(r) ==
    IF r.form = "raise" \/ r.form = "none" THEN [kind |-> "except", value |-> JNull]
    ELSE LET parsed == ParseJsonResponse(r)
             applied == ApplyKillSwitch(parsed)
         IN  IF ~Truthy(parsed) THEN [kind |-> "fall", value |-> JNull]
             ELSE IF applied.raised THEN [kind |-> "except", value |-> JNull]
             ELSE [kind |-> "return", value |-> applied.value]

(***************************************************************************)
(* What chat.completions.create gives.                                     *)
(***************************************************************************)
JDictOf(kill_switch, suitability_score, target_entity) ==
    LET all == [kill_switch |-> kill_switch, suitability_score |-> suitability_score,
                target_entity |-> target_entity]
        keys == {k \in DOMAIN all : all[k].kind # "absent"}
    IN  JDict([k \in keys |-> all[k]])

KillSwitches ==
    { JAbsent, JNull, JDict(<<>>),
      JDict([triggered |-> JBool(TRUE)]),
      JDict([triggered |-> JBool(FALSE)]),
      JDict([triggered |-> JNull]) }

JsonValues ==
    {JNull, JInt(0), JInt(5), JList(0), JList(1)}
    \cup {JDictOf(k, sc, e) : k \in KillSwitches, sc \in {JAbsent, JInt(75)},
                              e \in {JAbsent, JStr(<<83>>)}}

NoResponse == [form |-> "idle", value |-> JNull]

ApiResponses ==
    {[form |-> f, value |-> JNull] : f \in {"raise", "none", "empty", "garbage"}}
    \cup {[form |-> f, value |-> v] : f \in {"plain", "fenced", "prose"}, v \in JsonValues}

(***************************************************************************)
(* SpecAnalyzer: _call_api calls, one after the other, each a loop of       *)
(* attempts on whatever the API gives.                                      *)
(***************************************************************************)
InitAnalyzer ==
    /\ InitDao
    /\ response = <<>>

\* _call_api is entered: the for statement takes the first value of attempt
CallApi ==
    /\ pc = "idle"
    /\ \E n \in 0..MaxRetries : max_retries' = n
    /\ attempt' = 0
    /\ api_calls' = 0
    /\ response' = NoResponse
    /\ analysis' = JNull
    /\ pc' = "calling"
    /\ UNCHANGED <<parserVars, daoVars>>

\* one pass of the loop: the API call, the parse, and what follows from them
Attempt ==
    /\ pc = "calling"
    /\ \E r \in ApiResponses :
          LET body == TryBody(r)
          IN  /\ response' = r
              /\ api_calls' = api_calls + 1
              /\ IF body.kind = "return"
                 THEN analysis' = body.value /\ pc' = "done" /\ attempt' = attempt
                 ELSE IF attempt < max_retries
                 THEN analysis' = analysis /\ pc' = "calling" /\ attempt' = attempt + 1
                 ELSE /\ analysis' = DefaultResult(IF body.kind = "except" THEN MsgApiError
                                                   ELSE MsgJsonFailed)
                      /\ pc' = "done"
                      /\ attempt' = attempt
    /\ UNCHANGED <<max_retries, parserVars, daoVars>>

\* the caller takes the result
TakeAnalysis ==
    /\ pc = "done"
    /\ pc' = "idle"
    /\ UNCHANGED <<aiVars, parserVars, daoVars>>

NextAnalyzer ==
    \/ CallApi
    \/ Attempt
    \/ TakeAnalysis

SpecAnalyzer == InitAnalyzer /\ [][NextAnalyzer]_vars


(***************************************************************************)
(* Properties of _call_api.                                                *)
(***************************************************************************)
\* what the last response parses to
Parsed == ParseJsonResponse(response)

IsObject(x) == x.kind = "dict" /\ DOMAIN x.val # {}

KillSwitchOf(x) == IF "kill_switch" \in DOMAIN x.val THEN x.val["kill_switch"] ELSE JAbsent

TriggeredIn(x) ==
    /\ KillSwitchOf(x).kind = "dict"
    /\ "triggered" \in DOMAIN KillSwitchOf(x).val
    /\ KillSwitchOf(x).val["triggered"] = JBool(TRUE)

NotTriggeredIn(x) ==
    \/ KillSwitchOf(x).kind = "absent"
    \/ /\ KillSwitchOf(x).kind = "dict"
       /\ \/ "triggered" \notin DOMAIN KillSwitchOf(x).val
          \/ KillSwitchOf(x).val["triggered"] = JBool(FALSE)

ScoreOf(x) ==
    IF "suitability_score" \in DOMAIN x.val THEN x.val["suitability_score"] ELSE JAbsent

\* C23: a result returned from a parsed response whose kill_switch.triggered is
\* true has suitability_score 0, whatever score the response carried; when
\* kill_switch is absent or not triggered the result has the score of the
\* response (none when the response has none).
C23_KillSwitchForcesZeroScore ==
    (pc = "done" /\ IsObject(Parsed)) =>
        /\ TriggeredIn(Parsed) => ScoreOf(analysis) = JInt(0)
        /\ NotTriggeredIn(Parsed) => ScoreOf(analysis) = ScoreOf(Parsed)

C23_Witness ==
    /\ pc = "done"
    /\ api_calls = 2
    /\ IsObject(Parsed)
    /\ TriggeredIn(Parsed)
    /\ ScoreOf(Parsed) = JInt(75)
    /\ ScoreOf(analysis) = JInt(0)

\* C29: _call_api issues at most max_retries + 1 API calls; it stops at the
\* first response that parses to a non-empty JSON object, so it goes on to
\* another attempt only after a raised exception or a failed parse and only
\* while attempts remain; it always returns a dict, the default result with
\* suitability_score -1 when every attempt failed.
C29_RetriesThenDefault ==
    /\ api_calls <= max_retries + 1
    /\ pc = "calling" => api_calls <= max_retries
    /\ (pc = "calling" /\ api_calls > 0) => ~IsObject(Parsed)
    /\ pc = "done" => analysis.kind = "dict"
    /\ (pc = "done" /\ ~IsObject(Parsed)) =>
          api_calls = max_retries + 1 /\ ScoreOf(analysis) = JInt(0 - 1)


(***************************************************************************)
(* Properties of the extractors on a part that fails.                      *)
(***************************************************************************)
BodyStreams(c) == {i \in 1..Len(c.streams) : c.streams[i].path[1] = NameBodyText}

\* C24: in a compressed container whose body sections can all be read, a
\* section that does not inflate is skipped alone: the extractor returns (it
\* raises nothing), every body section has been read, and the texts it joins
\* are those of the sections that inflate, before and after the failed one, in
\* the order of the visit.
C24_FailedInflateSkipsOneSection ==
    (/\ pc = "done" /\ ret.extractor = "hwp" /\ file.content.kind = "ole"
     /\ IsCompressed(file.content.header)
     /\ \A i \in BodyStreams(file.content) : file.content.streams[i].data.readable
     /\ \E i \in BodyStreams(file.content) : ~file.content.streams[i].data.deflateOk) =>
        LET c == file.content
            order == ret.inner.order
        IN  /\ ret.inner.kind = "return"
            /\ Len(order) = Cardinality(BodyStreams(c))
            /\ {order[k] : k \in 1..Len(order)} = BodyStreams(c)
            /\ ret.inner.texts =
                  NonEmpty([k \in 1..Len(order) |->
                              IF c.streams[order[k]].data.deflateOk
                              THEN ExtractTextFromHwpRecords(c.streams[order[k]].data.recs)
                              ELSE <<>>])
            /\ ret.inner.value = Join(<<NL>>, ret.inner.texts)

C24_Witness ==
    /\ pc = "done" /\ ret.extractor = "hwp" /\ file.content.kind = "ole"
    /\ IsCompressed(file.content.header)
    /\ Len(ret.inner.order) = 3
    /\ file.content.streams[ret.inner.order[1]].data.deflateOk
    /\ ~file.content.streams[ret.inner.order[2]].data.deflateOk
    /\ file.content.streams[ret.inner.order[2]].data.readable
    /\ file.content.streams[ret.inner.order[3]].data.deflateOk
    /\ ret.inner.kind = "return"
    /\ ret.inner.value = <<97, NL, 98>>


\* An entry that fails to parse: ET.fromstring raises on its bytes.
FailsToParse(d) == d.read = "ok" /\ (~d.wellformed \/ d.codec # Utf8)

\* C25: in an archive whose selected entries can all be read, an entry that
\* fails to parse is skipped alone and gives no text: the extractor returns,
\* every selected entry has been read, and the texts it joins are those of the
\* entries that parse, before and after the failed one, in the order of the
\* entries.
C25_FailedXmlSkipsOneEntry ==
    (/\ pc = "done" /\ ret.extractor = "hwpx" /\ file.content.kind = "zip"
     /\ \A k \in 1..Len(SelectedEntries(file.content)) :
           file.content.entries[SelectedEntries(file.content)[k]].data.read = "ok"
     /\ \E k \in 1..Len(SelectedEntries(file.content)) :
           FailsToParse(file.content.entries[SelectedEntries(file.content)[k]].data)) =>
        LET c == file.content
            order == ret.inner.order
        IN  /\ ret.inner.kind = "return"
            /\ order = SelectedEntries(c)
            /\ ret.inner.texts =
                  NonEmpty([k \in 1..Len(order) |->
                              IF FailsToParse(c.entries[order[k]].data) THEN <<>>
                              ELSE ExtractTextFromHwpxXml(c.entries[order[k]].data)])
            /\ ret.inner.value = Join(<<NL>>, ret.inner.texts)


\* The text of the descendants of the root whose tag is t, whatever their
\* namespace, in document order.
TextOfEveryT(d) ==
    LET n == Len(d.elems)
        kept == Filter(n, [i \in 1..n |-> /\ i > 1
                                          /\ d.elems[i].tag = TagT
                                          /\ d.elems[i].text # PyNone
                                          /\ d.elems[i].text # <<>>])
    IN  Join(<<NL>>, [k \in 1..Len(kept) |-> d.elems[kept[k]].text])

\* C26: of an entry that parses, the text of every descendant element whose tag
\* is t is collected, in document order, whether the t elements are in a known
\* namespace, in an unknown one, in none, or in several namespaces within the
\* one entry.
C26_EveryTCollected ==
    (/\ pc = "done" /\ ret.extractor = "hwpx" /\ file.content.kind = "zip"
     /\ ret.inner.kind = "return"
     /\ \A k \in 1..Len(SelectedEntries(file.content)) :
           LET d == file.content.entries[SelectedEntries(file.content)[k]].data
           IN  d.read = "ok" /\ ~FailsToParse(d)) =>
        ret.inner.texts =
            NonEmpty([k \in 1..Len(ret.inner.order) |->
                        TextOfEveryT(file.content.entries[ret.inner.order[k]].data)])


(***************************************************************************)
(* Properties of the record header.                                        *)
(***************************************************************************)
\* Values of the level field: none of its bits, its lowest bit (bit 10 of the
\* word), its bit 6 (bit 16 of the word), all of its bits.
Levels == {0, 1, 64, 1023}

\* C28: the tokenizer reads tagId from bits 0-9 and size from bits 20-31 of the
\* header word and does not read the level (bits 10-19): a stream gives the
\* same text when the level of any of its records is set to any other value.
C28_LevelBitsUnused ==
    pc = "done" =>
        \A i \in 1..Len(records) :
            /\ HeaderTagId(encoded, RecordOffset(records, i)) = records[i].tag_id
            /\ HeaderSize(encoded, RecordOffset(records, i))
                  = (IF Len(records[i].payload) >= 4095 THEN 4095
                     ELSE Len(records[i].payload))
            /\ \A lv \in Levels :
                  ExtractTextFromHwpRecords(
                      BuildStream([records EXCEPT ![i].level = lv])) = result

C28_Witness ==
    /\ pc = "done"
    /\ records = <<Record(67, 1, <<98, 0, 13, 0>>), Record(67, 0, <<97, 0>>)>>
    /\ result = <<98, NL, NL, 97>>


(***************************************************************************)
(* SpecScan: the loops of _extract_text_from_hwp_records and of            *)
(* _decode_hwp_text, one pass at a time, on streams that end anywhere: a   *)
(* stream of records cut at any length, or followed by a header whose size *)
(* lies beyond the end.                                                    *)
(***************************************************************************)
MaxScanRecords == 2   \* most records in a stream before it is cut

\* What struct.unpack_from raises when fewer bytes than the format lie at offset.
StructError == <<0 - 7>>

\* struct.unpack_from("<I", data, offset) raises struct.error.
UnpackRaises(data, offset) == offset + 4 > Len(data)

\* data[a:b]: the bytes from a up to b, or up to the end of data
Slice(data, a, b) == SubSeq(data, a + 1, IF b < Len(data) THEN b ELSE Len(data))

\* How the head of a pass ends: with break, with an exception, or with the
\* header of a record read; offset is the local offset at that point.
HeadOutcome(kind, tag_id, size, offset) ==
    [kind |-> kind, tag_id |-> tag_id, size |-> size, offset |-> offset]

\* A mutant of RangeCheck: no check of offset + size against data_len.
RangeCheckAbsent(data, tag_id, size, offset) == HeadOutcome("record", tag_id, size, offset)

\* if offset + size > data_len: break
RangeCheck(data, tag_id, size, offset) ==
    IF offset + size > Len(data) THEN HeadOutcome("break", tag_id, size, offset)
    ELSE HeadOutcome("record", tag_id, size, offset)

\* _extract_text_from_hwp_records: a pass of the while loop from its first
\* line to the range check.
RecordHead(data, offset) ==
    IF offset + 4 > Len(data) THEN HeadOutcome("break", 0, 0, offset)
    ELSE IF UnpackRaises(data, offset) THEN HeadOutcome("raise", 0, 0, offset)
    ELSE LET tag_id == HeaderTagId(data, offset)
             size == HeaderSize(data, offset)
         IN  IF size = 4095
             THEN IF offset + 4 + 4 > Len(data) THEN HeadOutcome("break", tag_id, size, offset + 4)
                  ELSE IF UnpackRaises(data, offset + 4)
                       THEN HeadOutcome("raise", tag_id, size, offset + 4)
                  ELSE RangeCheck(data, tag_id, EscapeSize(data, offset + 4), offset + 8)
             ELSE RangeCheck(data, tag_id, size, offset + 4)

\* Text records "a", "b<paragraph end>", "<field start>a", " "; a record
\* without payload; non-text records whose payloads are "a" and a whole text
\* record "c".
ScanChoices ==
    { Record(67, 0, <<97, 0>>),
      Record(67, 1, <<98, 0, 13, 0>>),
      Record(67, 0, <<3, 0, 97, 0>>),
      Record(67, 0, <<32, 0>>),
      Record(66, 0, <<>>),
      Record(66, 1, <<97, 0>>),
      Record(10, 0, BuildRecord(67, 0, <<99, 0>>)) }

\* The streams that are cut: those of ScanChoices, and one with a record of
\* 4095 payload bytes, which carries its size after the header.
ScanStreams ==
    UNION { [1..k -> ScanChoices] : k \in 0..MaxScanRecords }
        \cup { <<Record(67, 0, <<98, 0>>), Record(67, 0, LongPayload(4095))>> }

\* The header of a text record whose size field is 0xFFF.
EscapeHeader == <<67, 0, 240, 255>>

\* What follows the last record: nothing; three bytes of a header; a header
\* with the size 6 and two bytes; a header without its escape size; escape
\* sizes 3, 2^31 - 1, 2^31 and 2^32 - 1 and two bytes.
BrokenTails ==
    { <<>>,
      <<67, 0, 0>>,
      <<67, 0, 96, 0, 97, 0>>,
      EscapeHeader,
      EscapeHeader \o <<3, 0>>,
      EscapeHeader \o <<3, 0, 0, 0, 97, 0>>,
      EscapeHeader \o <<255, 255, 255, 127, 97, 0>>,
      EscapeHeader \o <<0, 0, 0, 128, 97, 0>>,
      EscapeHeader \o <<255, 255, 255, 255, 97, 0>> }

\* The lengths a stream is cut at: up to nine bytes into every record, one
\* byte before the end, the end.
CutsOf(recs) ==
    LET n == Len(BuildStream(recs))
    IN  { m \in 0..n : \/ m >= n - 1
                       \/ \E i \in 1..Len(recs) :
                             m - RecordOffset(recs, i) \in 0..9 }

InitScan ==
    /\ records \in ScanStreams
    /\ \/ \E m \in CutsOf(records) : encoded = SubSeq(BuildStream(records), 1, m)
       \/ \E tail \in BrokenTails : encoded = BuildStream(records) \o tail
    /\ cursor = [offset |-> 0, size |-> 0, texts |-> <<>>, text_data |-> <<>>]
    /\ scan = [i |-> 0, result |-> <<>>]
    /\ result = <<>>
    /\ pc = "tokenize"
    /\ file = NoFile
    /\ ret = NoRet
    /\ handles = NoHandles
    /\ text = <<>>
    /\ cleaned = <<>>
    /\ passes = 0
    /\ calls = <<>>
    /\ frames = <<>>
    /\ CollabIdle

\* The while loop ends, by its condition or by a break, and the texts are
\* joined and returned; an exception leaves the function in their place.
RecordsReturn ==
    /\ pc = "tokenize"
    /\ LET on == cursor.offset < Len(encoded)
           head == RecordHead(encoded, cursor.offset)
       IN  /\ ~on \/ head.kind # "record"
           /\ result' = IF on /\ head.kind = "raise" THEN StructError
                        ELSE Join(<<NL>>, cursor.texts)
           /\ cursor' = IF on THEN [cursor EXCEPT !.offset = head.offset] ELSE cursor
    /\ pc' = "done"
    /\ UNCHANGED <<collabVars, file, ret, handles, cleanVars, encoded, records, threadVars, scan>>

\* A pass over a record whose tagId is not 67.
RecordSkip ==
    /\ pc = "tokenize"
    /\ cursor.offset < Len(encoded)
    /\ LET head == RecordHead(encoded, cursor.offset)
       IN  /\ head.kind = "record"
           /\ head.tag_id # 67
           /\ cursor' = [cursor EXCEPT !.offset = head.offset + head.size,
                                       !.size = head.size]
    /\ UNCHANGED <<collabVars, file, ret, handles, cleanVars, tokenVars, threadVars, scan, pc>>

\* A pass over a record whose tagId is 67, up to the call of _decode_hwp_text.
RecordText ==
    /\ pc = "tokenize"
    /\ cursor.offset < Len(encoded)
    /\ LET head == RecordHead(encoded, cursor.offset)
       IN  /\ head.kind = "record"
           /\ head.tag_id = 67
           /\ cursor' = [cursor EXCEPT !.offset = head.offset,
                                       !.size = head.size,
                                       !.text_data = Slice(encoded, head.offset,
                                                           head.offset + head.size)]
    /\ scan' = [i |-> 0, result |-> <<>>]
    /\ pc' = "decode"
    /\ UNCHANGED <<collabVars, file, ret, handles, cleanVars, tokenVars, threadVars>>

\* A pass of the while loop of _decode_hwp_text.
DecodePass ==
    /\ pc = "decode"
    /\ scan.i < Len(cursor.text_data) - 1
    /\ scan' = DecodeStep(cursor.text_data, scan)
    /\ UNCHANGED <<collabVars, file, ret, handles, cleanVars, tokenVars, threadVars, cursor, pc>>

\* _decode_hwp_text returns; the rest of the pass over the text record.
DecodeReturn ==
    /\ pc = "decode"
    /\ ~(scan.i < Len(cursor.text_data) - 1)
    /\ cursor' = [cursor EXCEPT !.texts = IF Strip(scan.result) # <<>>
                                          THEN Append(@, scan.result) ELSE @,
                                !.offset = @ + cursor.size]
    /\ pc' = "tokenize"
    /\ UNCHANGED <<collabVars, file, ret, handles, cleanVars, tokenVars, threadVars, scan>>

NextScan == RecordsReturn \/ RecordSkip \/ RecordText \/ DecodePass \/ DecodeReturn

SpecScan == InitScan /\ [][NextScan]_vars

\* The interpreter runs a call that has begun to its end.
SpecScanFair == SpecScan /\ WF_vars(NextScan)

(***************************************************************************)
(* Properties of the two loops.                                            *)
(***************************************************************************)
\* The records of recs that lie whole in the first n bytes of their stream.
WholeRecords(recs, n) ==
    LET whole == {0} \cup { i \in 1..Len(recs) :
                     RecordOffset(recs, i)
                        + Len(BuildRecord(recs[i].tag_id, recs[i].level, recs[i].payload))
                        <= n }
    IN  SubSeq(recs, 1, Max(whole))

\* C27: the tokenizer reads no byte outside the buffer and raises nothing; on
\* a header of fewer than 4 bytes, an escape size of fewer than 4 bytes or a
\* size that reaches beyond the buffer it stops and returns the text of the
\* records that lie whole before that point.
C27_StopsInsideBuffer ==
    /\ cursor.offset <= Len(encoded)
    /\ pc = "decode" =>
          /\ cursor.offset + cursor.size <= Len(encoded)
          /\ Len(cursor.text_data) = cursor.size
          /\ scan.i <= Len(cursor.text_data)
    /\ pc = "done" =>
          /\ result # StructError
          /\ result = Join(<<NL>>, KeptTexts(WholeRecords(records, Len(encoded))))

C27_Witness ==
    /\ pc = "done"
    /\ records = <<Record(67, 0, <<97, 0>>), Record(67, 1, <<98, 0, 13, 0>>)>>
    /\ Len(encoded) = 12
    /\ result = <<97>>

\* C30: both loops end on every buffer: a pass of the tokenizer stops it or
\* moves offset forward by the 4 bytes of the header at least, a pass of the
\* decoder moves i forward by 2, and the call returns.
C30_LoopsTerminate ==
    /\ [][ /\ (pc = "tokenize" /\ pc' # "done") => cursor'.offset >= cursor.offset + 4
           /\ (pc = "decode" /\ pc' = "tokenize") => cursor'.offset >= cursor.offset
           /\ (pc = "decode" /\ pc' = "decode") => scan'.i = scan.i + 2 ]_vars
    /\ <>(pc = "done")

C30_Witness ==
    /\ pc = "done"
    /\ records = <<Record(67, 0, <<3, 0, 97, 0>>), Record(66, 1, <<97, 0>>)>>
    /\ encoded = BuildStream(records) \o EscapeHeader \o <<255, 255, 255, 255, 97, 0>>
    /\ cursor.offset = 22
    /\ result = <<97>>


=============================================================================
